---- MODULE Spec2Model ----
(***************************************************************************)
(* Session telemetry and response assembly of chrome-devtools-mcp:         *)
(* McpContext (page list, selection, dialog capture, text snapshots),      *)
(* McpResponse (declare / handle / format) and the page tools.             *)
(***************************************************************************)
EXTENDS Integers, Sequences, FiniteSets, TLC

\* ------------------------------------------------------------------ bounds
\* Pages the browser creates during one run (page identities 1..MaxPages).
MaxPages == 3

PageIds == 1..MaxPages

\* Text snapshots taken during one run (snapshot ids 1..MaxSnapshots).
MaxSnapshots == 10

\* Navigations whose resources stay preserved besides the current one.
PreservedNavigations == 3

\* Resources (requests, console messages, page errors) the browser emits in
\* one run, and top-level navigations it completes: enough to evict.
MaxResources == 3

MaxNavigations == PreservedNavigations + 1

\* Pages a browser may already show when the session attaches to it.
InitialPageCounts == 1..2

\* pageSize and pageIdx a caller may pass: omitted, or a number the tool's
\* schema admits (pageSize positive, pageIdx not negative)
MaxPageSize == 2

PageSizeArgs == {<<>>} \cup {<<n>> : n \in 1..MaxPageSize}

FarPageIdx == 5

PageIdxOptions == {<<>>, <<0>>, <<1>>, <<FarPageIdx>>}

\* Indices a caller may pass: every index of a full page list and one beyond.
PageIdxArgs == 0..MaxPages

\* ------------------------------------------------------------- program text
CLOSE_PAGE_ERROR == "The last open page cannot be closed. It is fine to keep it open."

DEFAULT_TIMEOUT == 5000

NAVIGATION_TIMEOUT == 10000

\* ------------------------------------------------------------------- state
VARIABLES
  \* the browser (external collaborator)
  browserPages,              \* open pages, in the order browser.pages() lists them
  nextPageId,                \* identity of the next page browser.newPage() makes
  dialogListeners,           \* page -> how often #dialogHandler is registered on it
  defaultTimeout,            \* page -> value of the last setDefaultTimeout (0: never set)
  defaultNavigationTimeout,  \* page -> value of the last setDefaultNavigationTimeout
  \* McpContext
  pages,                     \* #pages
  selectedPageIdx,           \* #selectedPageIdx
  dialog,                    \* #dialog: <<>> or <<[page |-> p, type |-> t]>>
  networkConditionsMap,      \* page -> <<>> or <<label>>
  cpuThrottlingRateMap,      \* page -> <<>> or <<rate>>
  textSnapshot,              \* #textSnapshot: <<>> or <<[root, idToNode, snapshotId]>>
  nextSnapshotId,            \* #nextSnapshotId
  attached,                  \* DOM nodes whose element handle still resolves
  captures,                  \* the createTextSnapshot() calls made so far, in call
                             \* order: "pending" while page.accessibility.snapshot()
                             \* is awaited, then "tree" or "null" (what it returned)
  \* the collectors, and the browser events they listen to
  networkCollector,          \* #networkCollector
  consoleCollector,          \* #consoleCollector
  nextObj,                   \* identity of the next request / message object
  navigations,               \* page -> top-level navigations completed so far
  observed,                  \* history: every emitted resource, in order, with
                             \* the page, its navigation count and the id reported
  \* McpResponse of the invocation in progress
  phase,                     \* "idle", "declared" (handler returned), "done"
  includePages,              \* #includePages
  textResponseLines,         \* #textResponseLines; a line is the sequence of the
                             \* pieces its template is made of
  networkRequestsOptions,    \* #networkRequestsOptions: <<>> or <<options>>
  consoleDataOptions,        \* #consoleDataOptions: <<>> or <<options>>
  requestParams,             \* the tool call in progress: its name and params
  snapshotParams,            \* #snapshotParams: <<>> or <<[verbose, filePath]>>
  attachedNetworkRequestId,  \* #attachedNetworkRequestId: <<>> or <<reqid>>
  attachedConsoleMessageId,  \* #attachedConsoleMessageId: <<>> or <<msgid>>
  images,                    \* #images, in attach order
  response,                  \* the content handle() returned, <<>> before
  gathered,                  \* handle() suspended at an await: how far it got,
                             \* its locals, and the declaration it was called on
  \* what the last operation was and how it ended
  lastCall

sessionVars == <<browserPages, nextPageId, dialogListeners, defaultTimeout,
  defaultNavigationTimeout, pages, selectedPageIdx, dialog,
  networkConditionsMap, cpuThrottlingRateMap>>

snapshotVars == <<textSnapshot, nextSnapshotId, attached, captures>>

collectorVars == <<networkCollector, consoleCollector, nextObj, navigations, observed>>

attachVars == <<snapshotParams, attachedNetworkRequestId, attachedConsoleMessageId,
  images>>

responseVars == <<phase, includePages, textResponseLines, networkRequestsOptions,
  consoleDataOptions, requestParams, attachVars, response, gathered>>

vars == <<sessionVars, snapshotVars, collectorVars, responseVars, lastCall>>

\* ----------------------------------------------------------------- helpers
InSeq(x, s) == \E i \in 1..Len(s) : s[i] = x

RemoveFromSeq(x, s) == SelectSeq(s, LAMBDA y : y # x)

\* Array.prototype.indexOf, 0-based, -1 when absent.
indexOf(s, x) ==
  IF InSeq(x, s) THEN (CHOOSE i \in 1..Len(s) : s[i] = x /\ \A j \in 1..(i - 1) : s[j] # x) - 1
  ELSE -1

\* The session as one value, so that the methods compose as in the source.
World ==
  [browserPages |-> browserPages, nextPageId |-> nextPageId,
   dialogListeners |-> dialogListeners, defaultTimeout |-> defaultTimeout,
   defaultNavigationTimeout |-> defaultNavigationTimeout,
   pages |-> pages, selectedPageIdx |-> selectedPageIdx, dialog |-> dialog,
   networkConditionsMap |-> networkConditionsMap,
   cpuThrottlingRateMap |-> cpuThrottlingRateMap,
   err |-> ""]

Throw(w, message) == [w EXCEPT !.err = message]

\* Page.isClosed()
isClosed(w, p) == ~InSeq(p, w.browserPages)

\* McpContext.getSelectedPage: [err, page]
getSelectedPage(w) ==
  LET i == w.selectedPageIdx IN
  IF i < 0 \/ i >= Len(w.pages)
  THEN [err |-> "No page selected", page |-> 0]
  ELSE IF isClosed(w, w.pages[i + 1])
       THEN [err |-> "The selected page has been closed. Call list_pages to see open pages.",
             page |-> 0]
       ELSE [err |-> "", page |-> w.pages[i + 1]]

\* McpContext.getPageByIdx: [err, page]
getPageByIdx(w, idx) ==
  IF idx < 0 \/ idx >= Len(w.pages)
  THEN [err |-> "No page found", page |-> 0]
  ELSE [err |-> "", page |-> w.pages[idx + 1]]

\* getNetworkMultiplierFromString, times 10 (the source's 2.5 is 25 here).
getNetworkMultiplierFromString(condition) ==
  IF condition = <<"Fast 4G">> THEN 10
  ELSE IF condition = <<"Slow 4G">> THEN 25
  ELSE IF condition = <<"Fast 3G">> THEN 50
  ELSE IF condition = <<"Slow 3G">> THEN 100
  ELSE 10

\* McpContext.getNetworkConditions / getCpuThrottlingRate for page p
getNetworkConditions(w, p) == w.networkConditionsMap[p]

getCpuThrottlingRate(w, p) ==
  IF w.cpuThrottlingRateMap[p] = <<>> THEN 1 ELSE w.cpuThrottlingRateMap[p][1]

\* McpContext.#updateSelectedPageTimeouts, called with a valid selected page
updateSelectedPageTimeouts(w) ==
  LET p == getSelectedPage(w).page IN
  [w EXCEPT
    !.defaultTimeout[p] = DEFAULT_TIMEOUT * getCpuThrottlingRate(w, p),
    !.defaultNavigationTimeout[p] =
      (NAVIGATION_TIMEOUT * getNetworkMultiplierFromString(getNetworkConditions(w, p))) \div 10]

setCpuThrottlingRate_NoTimeoutUpdate(w, rate) ==
  LET page == getSelectedPage(w) IN
  IF page.err # "" THEN Throw(w, page.err)
  ELSE [w EXCEPT !.cpuThrottlingRateMap[page.page] = <<rate>>]

\* setNetworkConditions keeping one condition for all pages
setNetworkConditions_Global(w, conditions) ==
  LET page == getSelectedPage(w) IN
  IF page.err # "" THEN Throw(w, page.err)
  ELSE updateSelectedPageTimeouts(
         [w EXCEPT !.networkConditionsMap = [p \in DOMAIN @ |-> conditions]])

\* McpContext.setNetworkConditions; conditions is <<>> for null
setNetworkConditions(w, conditions) ==
  LET page == getSelectedPage(w) IN
  IF page.err # "" THEN Throw(w, page.err)
  ELSE updateSelectedPageTimeouts(
         [w EXCEPT !.networkConditionsMap[page.page] = conditions])

\* McpContext.setCpuThrottlingRate
setCpuThrottlingRate(w, rate) ==
  LET page == getSelectedPage(w) IN
  IF page.err # "" THEN Throw(w, page.err)
  ELSE updateSelectedPageTimeouts(
         [w EXCEPT !.cpuThrottlingRateMap[page.page] = <<rate>>])

\* EventEmitter.off / on of #dialogHandler on page p
off(w, p) ==
  [w EXCEPT !.dialogListeners[p] = IF @ > 0 THEN @ - 1 ELSE 0]

on(w, p) == [w EXCEPT !.dialogListeners[p] = @ + 1]

\* McpContext.setSelectedPageIdx
setSelectedPageIdx(w, idx) ==
  LET oldPage == getSelectedPage(w) IN
  IF oldPage.err # "" THEN Throw(w, oldPage.err)
  ELSE
    LET w1 == [off(w, oldPage.page) EXCEPT !.selectedPageIdx = idx]
        newPage == getSelectedPage(w1)
    IN IF newPage.err # "" THEN Throw(w1, newPage.err)
       ELSE updateSelectedPageTimeouts(on(w1, newPage.page))

\* McpContext.createPagesSnapshot (no DevTools windows among the modelled pages)
createPagesSnapshot(w) == [w EXCEPT !.pages = w.browserPages]

\* Page.close(): the page leaves browser.pages(); closing a closed page rejects.
pageClose(w, p) ==
  IF isClosed(w, p)
  THEN Throw(w, "Protocol error: Connection closed. Most likely the page has been closed.")
  ELSE [w EXCEPT !.browserPages = RemoveFromSeq(p, @)]

\* McpContext.closePage
closePage(w, pageIdx) ==
  IF Len(w.pages) = 1 THEN Throw(w, CLOSE_PAGE_ERROR)
  ELSE
    LET got == getPageByIdx(w, pageIdx) IN
    IF got.err # "" THEN Throw(w, got.err)
    ELSE
      LET w1 == setSelectedPageIdx(w, 0) IN
      IF w1.err # "" THEN w1 ELSE pageClose(w1, got.page)

\* Browser.newPage()
browserNewPage(w) ==
  [w EXCEPT !.browserPages = Append(@, w.nextPageId), !.nextPageId = @ + 1]

\* McpContext.newPage, up to the collectors' addPage
newPage(w) ==
  LET page == w.nextPageId
      w1 == createPagesSnapshot(browserNewPage(w))
  IN setSelectedPageIdx(w1, indexOf(w1.pages, page))

\* Dialog.type() of the dialogs the browser opens: one that carries a default
\* value and one that does not
DialogTypes == {"alert", "prompt"}

\* #dialogHandler, run once per registration when page p opens a dialog
dialogEvent(w, p, type) ==
  IF w.dialogListeners[p] > 0
  THEN [w EXCEPT !.dialog = <<[page |-> p, type |-> type]>>] ELSE w


\* ---------------------------------------------------------- text snapshots
Digits == <<"0", "1", "2", "3", "4", "5", "6", "7", "8", "9">>

\* String(n) / `${n}` for n >= 0, as the sequence of its characters
RECURSIVE ToStr(_)
ToStr(n) ==
  IF n < 10 THEN <<Digits[n + 1]>>
  ELSE ToStr(n \div 10) \o <<Digits[(n % 10) + 1]>>

\* `${snapshotId}_${idCounter}`
MakeUid(snapshotId, idCounter) == ToStr(snapshotId) \o <<"_">> \o ToStr(idCounter)

\* uid.split('_')[0]
SplitFirst(uid) ==
  IF \E i \in 1..Len(uid) : uid[i] = "_"
  THEN SubSeq(uid, 1,
         (CHOOSE i \in 1..Len(uid) :
            uid[i] = "_" /\ \A j \in 1..(i - 1) : uid[j] # "_") - 1)
  ELSE uid

\* Raw accessibility trees page.accessibility.snapshot() may return. dom is
\* the DOM node an AX node stands for.
AXLeaf(dom, role, name, value) ==
  [dom |-> dom, role |-> role, name |-> name, value |-> value, children |-> <<>>]

AXNode(dom, role, name, value, children) ==
  [dom |-> dom, role |-> role, name |-> name, value |-> value, children |-> children]

TreeRoot == AXLeaf(1, "RootWebArea", "page", "")

TreeFlat ==
  AXNode(1, "RootWebArea", "page", "",
    <<AXLeaf(2, "button", "ok", ""), AXLeaf(3, "option", "A", "")>>)

\* an option that carries a value of its own, under a combobox with a value
TreeDeep ==
  AXNode(1, "RootWebArea", "page", "",
    <<AXNode(2, "combobox", "pick", "A", <<AXLeaf(3, "option", "A", "a1")>>)>>)

TreeMixed ==
  AXNode(1, "RootWebArea", "page", "",
    <<AXNode(2, "combobox", "pick", "A", <<AXLeaf(3, "option", "A", "")>>),
      AXLeaf(4, "button", "ok", "")>>)

RawTrees == {TreeRoot, TreeFlat, TreeDeep, TreeMixed}

DomIds == 1..4

\* preorder indices of the largest raw tree, and one beyond
UidIndexArgs == 0..4

RECURSIVE DomOf(_)
DomOf(node) ==
  {node.dom} \cup UNION {DomOf(node.children[i]) : i \in 1..Len(node.children)}

\* assignIds numbering a node after its children
RECURSIVE assignIds_ChildrenFirst(_, _, _)
assignIds_ChildrenFirst(node, snapshotId, idCounter) ==
  LET kids[i \in 0..Len(node.children)] ==
        IF i = 0 THEN [nodes |-> <<>>, next |-> idCounter, map |-> <<>>]
        ELSE LET r == assignIds_ChildrenFirst(node.children[i], snapshotId, kids[i - 1].next)
             IN [nodes |-> Append(kids[i - 1].nodes, r.node),
                 next |-> r.next,
                 map |-> r.map @@ kids[i - 1].map]
      done == kids[Len(node.children)]
      id == MakeUid(snapshotId, done.next)
      nodeWithId ==
        [id |-> id, dom |-> node.dom, role |-> node.role, name |-> node.name,
         value |-> IF node.role = "option" /\ node.name # "" THEN node.name ELSE node.value,
         children |-> done.nodes]
  IN [node |-> nodeWithId, next |-> done.next + 1, map |-> (id :> nodeWithId) @@ done.map]

\* assignIds: [node, next (idCounter afterwards), map (the idToNode entries)]
RECURSIVE assignIds(_, _, _)
assignIds(node, snapshotId, idCounter) ==
  LET id == MakeUid(snapshotId, idCounter)
      \* node.children.map(child => assignIds(child)), left to right
      kids[i \in 0..Len(node.children)] ==
        IF i = 0 THEN [nodes |-> <<>>, next |-> idCounter + 1, map |-> <<>>]
        ELSE LET r == assignIds(node.children[i], snapshotId, kids[i - 1].next)
             IN [nodes |-> Append(kids[i - 1].nodes, r.node),
                 next |-> r.next,
                 map |-> r.map @@ kids[i - 1].map]
      done == kids[Len(node.children)]
      nodeWithId ==
        [id |-> id, dom |-> node.dom, role |-> node.role, name |-> node.name,
         value |-> IF node.role = "option" /\ node.name # "" THEN node.name ELSE node.value,
         children |-> done.nodes]
  IN [node |-> nodeWithId, next |-> done.next, map |-> (id :> nodeWithId) @@ done.map]

\* createTextSnapshot() adding the new entries to the map of the previous
\* snapshot instead of building a new map
createTextSnapshot_SharedMap(snapshot, nextId, rootNode) ==
  IF rootNode = <<>> THEN [textSnapshot |-> snapshot, nextSnapshotId |-> nextId]
  ELSE
    LET snapshotId == nextId
        r == assignIds(rootNode[1], snapshotId, 0)
        old == IF snapshot = <<>> THEN <<>> ELSE snapshot[1].idToNode
    IN [textSnapshot |->
          <<[root |-> r.node, snapshotId |-> ToStr(snapshotId),
             idToNode |-> r.map @@ old]>>,
        nextSnapshotId |-> nextId + 1]

\* McpContext.createTextSnapshot after the capture returned rootNode
\* (<<>> for null): [textSnapshot, nextSnapshotId]
createTextSnapshot(snapshot, nextId, rootNode) ==
  IF rootNode = <<>> THEN [textSnapshot |-> snapshot, nextSnapshotId |-> nextId]
  ELSE
    LET snapshotId == nextId
        r == assignIds(rootNode[1], snapshotId, 0)
    IN [textSnapshot |->
          <<[root |-> r.node, snapshotId |-> ToStr(snapshotId), idToNode |-> r.map]>>,
        nextSnapshotId |-> nextId + 1]

NoSnapshotError == "No snapshot found. Use take_snapshot to capture one."

StaleUidError ==
  "This uid is coming from a stale snapshot. Call take_snapshot to get a fresh snapshot."

NoSuchElementError == "No such element found in the snapshot"

\* getElementByUid without the comparison of the uid's snapshot id
getElementByUid_NoStaleCheck(snapshot, resolvable, uid) ==
  IF snapshot = <<>> \/ snapshot[1].idToNode = <<>>
  THEN [err |-> NoSnapshotError, handle |-> 0]
  ELSE IF uid \notin DOMAIN snapshot[1].idToNode
  THEN [err |-> NoSuchElementError, handle |-> 0]
  ELSE IF snapshot[1].idToNode[uid].dom \notin resolvable
  THEN [err |-> NoSuchElementError, handle |-> 0]
  ELSE [err |-> "", handle |-> snapshot[1].idToNode[uid].dom]

\* getElementByUid looking the uid up before comparing its snapshot id
getElementByUid_LookupFirst(snapshot, resolvable, uid) ==
  IF snapshot = <<>> \/ snapshot[1].idToNode = <<>>
  THEN [err |-> NoSnapshotError, handle |-> 0]
  ELSE IF uid \notin DOMAIN snapshot[1].idToNode
  THEN [err |-> NoSuchElementError, handle |-> 0]
  ELSE IF snapshot[1].snapshotId # SplitFirst(uid)
  THEN [err |-> StaleUidError, handle |-> 0]
  ELSE IF snapshot[1].idToNode[uid].dom \notin resolvable
  THEN [err |-> NoSuchElementError, handle |-> 0]
  ELSE [err |-> "", handle |-> snapshot[1].idToNode[uid].dom]

\* McpContext.getElementByUid: [err, handle]; the handle is the DOM node
getElementByUid(snapshot, resolvable, uid) ==
  IF snapshot = <<>> \/ snapshot[1].idToNode = <<>>
  THEN [err |-> NoSnapshotError, handle |-> 0]
  ELSE IF snapshot[1].snapshotId # SplitFirst(uid)
  THEN [err |-> StaleUidError, handle |-> 0]
  ELSE IF uid \notin DOMAIN snapshot[1].idToNode
  THEN [err |-> NoSuchElementError, handle |-> 0]
  ELSE IF snapshot[1].idToNode[uid].dom \notin resolvable
  THEN [err |-> NoSuchElementError, handle |-> 0]
  ELSE [err |-> "", handle |-> snapshot[1].idToNode[uid].dom]


\* -------------------------------------------------------------- collectors
\* An optional boolean argument: <<>> (undefined), <<TRUE>> or <<FALSE>>.
OptionalBooleans == {<<>>, <<TRUE>>, <<FALSE>>}

Truthy(opt) == opt = <<TRUE>>

\* ResourceType values the browser reports, and console message types
ResourceTypes == {"document", "image"}

ConsoleTypes == {"log", "error"}

\* HTTPRequest, ConsoleMessage and Error objects; obj is the object identity
HTTPRequest(obj, type) == [obj |-> obj, kind |-> "request", type |-> type]

ConsoleMessage(obj, type) == [obj |-> obj, kind |-> "console", type |-> type]

PageError(obj) == [obj |-> obj, kind |-> "pageerror", type |-> ""]

\* new PageCollector(browser, listeners)
NewCollector ==
  [listening |-> {},
   log |-> [p \in PageIds |-> <<>>],
   epoch |-> [p \in PageIds |-> 1],
   nextId |-> 1,
   ids |-> <<>>]

\* PageCollector.addPage: idempotent per page
addPage(c, p) ==
  IF p \in c.listening THEN c
  ELSE [c EXCEPT !.listening = @ \cup {p}, !.log[p] = <<>>, !.epoch[p] = 1]

\* PageCollector.init: listen on every page known so far
RECURSIVE collectorInit(_, _)
collectorInit(c, known) ==
  IF known = <<>> THEN c ELSE collectorInit(addPage(c, Head(known)), Tail(known))

\* the listener's collect(value): look up or assign the id, append to the
\* page's current-epoch buffer
collect(c, p, resource) ==
  IF p \notin c.listening THEN c
  ELSE
    LET known == resource.obj \in DOMAIN c.ids
        id == IF known THEN c.ids[resource.obj] ELSE c.nextId
    IN [c EXCEPT
         !.ids = IF known THEN @ ELSE (resource.obj :> id) @@ @,
         !.nextId = IF known THEN @ ELSE @ + 1,
         !.log[p] = Append(@, [id |-> id, resource |-> resource, epoch |-> c.epoch[p]])]

\* epoch rollover when the top-level navigation of page p completes
navigated(c, p) ==
  IF p \notin c.listening THEN c
  ELSE
    LET e == c.epoch[p] + 1 IN
    [c EXCEPT
      !.epoch[p] = e,
      !.log[p] = SelectSeq(@, LAMBDA x : e - x.epoch <= PreservedNavigations)]

SeqMap(f(_), q) == [i \in 1..Len(q) |-> f(q[i])]

ResourceOf(entry) == entry.resource

\* PageCollector.getData(page, includePreserved)
getData(c, p, includePreserved) ==
  IF p \notin c.listening THEN <<>>
  ELSE IF Truthy(includePreserved) THEN SeqMap(ResourceOf, c.log[p])
  ELSE SeqMap(ResourceOf, SelectSeq(c.log[p], LAMBDA x : x.epoch = c.epoch[p]))

\* PageCollector.getIdForResource: [err, id]
getIdForResource(c, resource) ==
  IF resource.obj \in DOMAIN c.ids
  THEN [err |-> "", id |-> c.ids[resource.obj]]
  ELSE [err |-> "no id assigned to the resource", id |-> 0]

NoDataError == "No requests found for selected page"

NotFoundError == "Request not found for selected page"

\* PageCollector.getById(page, id): [err, resource]; the lookup reads the
\* retained buffers of the page only
getById(c, p, id) ==
  IF p \notin c.listening THEN [err |-> NoDataError, resource |-> <<>>]
  ELSE
    LET hits == SelectSeq(c.log[p], LAMBDA e : e.id = id) IN
    IF hits = <<>> THEN [err |-> NotFoundError, resource |-> <<>>]
    ELSE [err |-> "", resource |-> <<hits[1].resource>>]

getNetworkRequests_AlwaysPreserved(w, collector, includePreservedRequests) ==
  LET page == getSelectedPage(w) IN
  IF page.err # "" THEN [err |-> page.err, data |-> <<>>]
  ELSE [err |-> "", data |-> getData(collector, page.page, <<TRUE>>)]

getNetworkRequestStableId_LastAssigned(collector, request) ==
  [err |-> "", id |-> collector.nextId - 1]

\* getConsoleData handing out the newest message first
getConsoleData_NewestFirst(w, collector, includePreservedMessages) ==
  LET page == getSelectedPage(w)
      data == IF page.err # "" THEN <<>>
              ELSE getData(collector, page.page, includePreservedMessages)
  IN [err |-> page.err, data |-> [i \in 1..Len(data) |-> data[Len(data) + 1 - i]]]

\* McpContext.getNetworkRequests / getConsoleData: [err, data]
getNetworkRequests(w, collector, includePreservedRequests) ==
  LET page == getSelectedPage(w) IN
  IF page.err # "" THEN [err |-> page.err, data |-> <<>>]
  ELSE [err |-> "", data |-> getData(collector, page.page, includePreservedRequests)]

getConsoleData(w, collector, includePreservedMessages) ==
  LET page == getSelectedPage(w) IN
  IF page.err # "" THEN [err |-> page.err, data |-> <<>>]
  ELSE [err |-> "", data |-> getData(collector, page.page, includePreservedMessages)]

\* McpContext.getNetworkRequestStableId / getConsoleMessageStableId
getNetworkRequestStableId(collector, request) == getIdForResource(collector, request)

\* getNetworkRequestById looking on the first page of the list
getNetworkRequestById_FirstPage(w, collector, reqid) ==
  getById(collector, w.pages[1], reqid)

\* McpContext.getNetworkRequestById / getConsoleMessageById: [err, resource]
getNetworkRequestById(w, collector, reqid) ==
  LET page == getSelectedPage(w) IN
  IF page.err # "" THEN [err |-> page.err, resource |-> <<>>]
  ELSE getById(collector, page.page, reqid)

getConsoleMessageById(w, collector, id) ==
  LET page == getSelectedPage(w) IN
  IF page.err # "" THEN [err |-> page.err, resource |-> <<>>]
  ELSE getById(collector, page.page, id)

getConsoleMessageStableId(collector, message) == getIdForResource(collector, message)


\* ---------------------------------------------------------------- response
\* Text lines are sequences of strings; numbers enter through ToStr.
InvalidPageLine == <<"Invalid page number provided. Showing first page.">>

ShowingLine(first, last, total, page, totalPages) ==
  <<"Showing ">> \o ToStr(first) \o <<"-">> \o ToStr(last) \o <<" of ">>
    \o ToStr(total) \o <<" (Page ">> \o ToStr(page) \o <<" of ">>
    \o ToStr(totalPages) \o <<").">>

NextPageLine(page) == <<"Next page: ">> \o ToStr(page)

PreviousPageLine(page) == <<"Previous page: ">> \o ToStr(page)

NetworkRequestsHeader == <<"## Network requests">>

NoRequestsLine == <<"No requests found.">>

ConsoleMessagesHeader == <<"## Console messages">>

NoConsoleMessagesLine == <<"<no console messages found>">>

\* a number that may be undefined is truthy when defined and not 0
TruthyNumber(opt) == opt # <<>> /\ opt[1] # 0

Min(a, b) == IF a < b THEN a ELSE b

Max(a, b) == IF a > b THEN a ELSE b

\* paginate: the result for a page size, a page count and the page to show
paginationResult(items, pageSize, totalPages, currentPage, invalidPage) ==
  [items |-> SubSeq(items, currentPage * pageSize + 1,
                    Min(currentPage * pageSize + pageSize, Len(items))),
   currentPage |-> currentPage,
   totalPages |-> totalPages,
   hasNextPage |-> currentPage < totalPages - 1,
   hasPreviousPage |-> currentPage > 0,
   startIndex |-> currentPage * pageSize,
   endIndex |-> Min(currentPage * pageSize + pageSize, Len(items)),
   invalidPage |-> invalidPage]

\* paginate: a page index outside [0, totalPages) falls back to page 0
pageOf(items, pageSize, totalPages, pageIdx) ==
  IF pageIdx < 0 \/ pageIdx >= totalPages
  THEN paginationResult(items, pageSize, totalPages, 0, TRUE)
  ELSE paginationResult(items, pageSize, totalPages, pageIdx, FALSE)

\* paginate(items, options); options is <<>> or <<[pageSize, pageIdx]>>
paginate(items, options) ==
  IF options = <<>> THEN pageOf(items, Len(items), 1, 0)
  ELSE IF options[1].pageSize = <<>>
  THEN pageOf(items, Len(items), 1,
              IF options[1].pageIdx = <<>> THEN 0 ELSE options[1].pageIdx[1])
  ELSE pageOf(items, options[1].pageSize[1],
              Max(1, (Len(items) + options[1].pageSize[1] - 1) \div options[1].pageSize[1]),
              IF options[1].pageIdx = <<>> THEN 0 ELSE options[1].pageIdx[1])

\* #dataWithPagination announcing the range from its 0-based start index
paginationInfo_ZeroBasedRange(data, pagination, paginationResult_) ==
  (IF paginationResult_.invalidPage THEN <<InvalidPageLine>> ELSE <<>>)
  \o <<ShowingLine(paginationResult_.startIndex, paginationResult_.endIndex,
                   Len(data), paginationResult_.currentPage + 1,
                   paginationResult_.totalPages)>>
  \o (IF pagination # <<>> /\ paginationResult_.hasNextPage
      THEN <<NextPageLine(paginationResult_.currentPage + 1)>> ELSE <<>>)
  \o (IF pagination # <<>> /\ paginationResult_.hasPreviousPage
      THEN <<PreviousPageLine(paginationResult_.currentPage - 1)>> ELSE <<>>)

\* #dataWithPagination: the info lines for a pagination result
paginationInfo(data, pagination, paginationResult_) ==
  (IF paginationResult_.invalidPage THEN <<InvalidPageLine>> ELSE <<>>)
  \o <<ShowingLine(paginationResult_.startIndex + 1, paginationResult_.endIndex,
                   Len(data), paginationResult_.currentPage + 1,
                   paginationResult_.totalPages)>>
  \o (IF pagination # <<>> /\ paginationResult_.hasNextPage
      THEN <<NextPageLine(paginationResult_.currentPage + 1)>> ELSE <<>>)
  \o (IF pagination # <<>> /\ paginationResult_.hasPreviousPage
      THEN <<PreviousPageLine(paginationResult_.currentPage - 1)>> ELSE <<>>)

dataWithPagination_Unpaged(data, pagination) ==
  [info |-> paginationInfo(data, <<>>, paginate(data, <<>>)),
   items |-> paginate(data, <<>>).items]

dataWithPagination_SilentFallback(data, pagination) ==
  [info |-> paginationInfo(data, pagination,
                          [paginate(data, pagination) EXCEPT !.invalidPage = FALSE]),
   items |-> paginate(data, pagination).items]

\* McpResponse.#dataWithPagination: [info, items]
dataWithPagination(data, pagination) ==
  [info |-> paginationInfo(data, pagination, paginate(data, pagination)),
   items |-> paginate(data, pagination).items]

\* the pagination field both setInclude methods build from their options
paginationOf(options) ==
  IF TruthyNumber(options.pageSize) \/ TruthyNumber(options.pageIdx)
  THEN <<[pageSize |-> options.pageSize, pageIdx |-> options.pageIdx]>>
  ELSE <<>>

setIncludeNetworkRequests_DefaultPageSize(value, options) ==
  IF ~value THEN <<>>
  ELSE <<[include |-> value,
          pagination |->
            <<[pageSize |-> IF options.pageSize = <<>> THEN <<1>> ELSE options.pageSize,
               pageIdx |-> options.pageIdx]>>,
          resourceTypes |-> options.resourceTypes,
          includePreservedRequests |-> options.includePreservedRequests,
          networkRequestIdInDevToolsUI |-> options.networkRequestIdInDevToolsUI]>>

\* McpResponse.setIncludeNetworkRequests: the new #networkRequestsOptions
setIncludeNetworkRequests(value, options) ==
  IF ~value THEN <<>>
  ELSE <<[include |-> value,
          pagination |-> paginationOf(options),
          resourceTypes |-> options.resourceTypes,
          includePreservedRequests |-> options.includePreservedRequests,
          networkRequestIdInDevToolsUI |-> options.networkRequestIdInDevToolsUI]>>

\* McpResponse.setIncludeConsoleData: the new #consoleDataOptions
setIncludeConsoleData(value, options) ==
  IF ~value THEN <<>>
  ELSE <<[include |-> value,
          pagination |-> paginationOf(options),
          types |-> options.types,
          includePreservedMessages |-> options.includePreservedMessages]>>

\* the resource-type filter of format(); resourceTypes is <<>> or <<set>>
filterRequests(requests, resourceTypes) ==
  IF resourceTypes # <<>> /\ resourceTypes[1] # {}
  THEN SelectSeq(requests, LAMBDA request : request.type \in resourceTypes[1])
  ELSE requests

\* the message-type filter of handle(); types is <<>> or <<set>>
filterMessages(messages, types) ==
  IF types # <<>> /\ types[1] # {}
  THEN SelectSeq(messages,
                 LAMBDA message :
                   IF message.kind = "console" THEN message.type \in types[1]
                   ELSE "error" \in types[1])
  ELSE messages

\* the ConsoleMessageData handle() builds for one collected item
ConsoleMessageData(collector, item) ==
  [consoleMessageStableId |-> getConsoleMessageStableId(collector, item).id,
   type |-> IF item.kind = "console" THEN item.type ELSE "error"]

\* handle(): consoleListData as [err, defined, data]
consoleListData(w, collector, options) ==
  IF options = <<>> \/ ~options[1].include
  THEN [err |-> "", defined |-> FALSE, data |-> <<>>]
  ELSE
    LET messages == getConsoleData(w, collector, options[1].includePreservedMessages) IN
    IF messages.err # "" THEN [err |-> messages.err, defined |-> FALSE, data |-> <<>>]
    ELSE [err |-> "", defined |-> TRUE,
          data |-> SeqMap(LAMBDA item : ConsoleMessageData(collector, item),
                          filterMessages(messages.data, options[1].types))]

\* getShortDescriptionForRequest
getShortDescriptionForRequest(request, id, selectedInDevToolsUI) ==
  <<"reqid=">> \o ToStr(id) \o <<" ", request.type>>
    \o (IF selectedInDevToolsUI THEN <<" [selected in the DevTools Network panel]">>
        ELSE <<>>)

\* formatConsoleEventShort
formatConsoleEventShort(message) ==
  <<"msgid=">> \o ToStr(message.consoleMessageStableId) \o <<" [", message.type, "]">>

networkRequestsSection_FilterAfterPagination(w, collector, options) ==
  IF options = <<>> \/ ~options[1].include THEN [err |-> "", lines |-> <<>>]
  ELSE
    LET got == getNetworkRequests(w, collector, options[1].includePreservedRequests) IN
    IF got.err # "" THEN [err |-> got.err, lines |-> <<>>]
    ELSE IF Len(got.data) > 0
    THEN
      LET data == dataWithPagination(got.data, options[1].pagination) IN
      [err |-> "",
       lines |-> <<NetworkRequestsHeader>> \o data.info \o
         SeqMap(LAMBDA request :
                  getShortDescriptionForRequest(
                    request, getNetworkRequestStableId(collector, request).id, FALSE),
                filterRequests(data.items, options[1].resourceTypes))]
    ELSE [err |-> "", lines |-> <<NetworkRequestsHeader, NoRequestsLine>>]

\* format(): the network requests list section, [err, lines]
networkRequestsSection(w, collector, options) ==
  IF options = <<>> \/ ~options[1].include THEN [err |-> "", lines |-> <<>>]
  ELSE
    LET got == getNetworkRequests(w, collector, options[1].includePreservedRequests) IN
    IF got.err # "" THEN [err |-> got.err, lines |-> <<>>]
    ELSE
      LET requests == filterRequests(got.data, options[1].resourceTypes) IN
      IF Len(requests) > 0
      THEN
        LET data == dataWithPagination(requests, options[1].pagination) IN
        [err |-> "",
         lines |-> <<NetworkRequestsHeader>> \o data.info \o
           SeqMap(LAMBDA request :
                    getShortDescriptionForRequest(
                      request,
                      getNetworkRequestStableId(collector, request).id,
                      <<getNetworkRequestStableId(collector, request).id>>
                        = options[1].networkRequestIdInDevToolsUI),
                  data.items)]
      ELSE [err |-> "", lines |-> <<NetworkRequestsHeader, NoRequestsLine>>]

\* format(): the console messages list section
consoleMessagesSection(options, listData) ==
  IF options = <<>> \/ ~options[1].include THEN <<>>
  ELSE
    LET messages == IF listData.defined THEN listData.data ELSE <<>> IN
    IF Len(messages) > 0
    THEN
      LET data == dataWithPagination(messages, options[1].pagination) IN
      <<ConsoleMessagesHeader>> \o data.info \o SeqMap(formatConsoleEventShort, data.items)
    ELSE <<ConsoleMessagesHeader, NoConsoleMessagesLine>>

\* format(): the "## Pages" section
pagesSection(w, include) ==
  IF ~include THEN <<>>
  ELSE <<<<"## Pages">>>> \o
    [i \in 1..Len(w.pages) |->
       ToStr(i - 1) \o <<": ", "page ">> \o ToStr(w.pages[i])
         \o (IF i - 1 = w.selectedPageIdx THEN <<" [selected]">> ELSE <<>>)]

\* appendResponseLine keeping only the line just appended
appendResponseLine_Overwrite(lines, line) == <<line>>

\* McpResponse.appendResponseLine
appendResponseLine(lines, line) == Append(lines, line)

\* McpResponse.includeSnapshot: params ?? {verbose: false}
includeSnapshot(params) ==
  IF params = <<>> THEN <<[verbose |-> FALSE, filePath |-> <<>>]>> ELSE params

\* McpResponse.attachImage
attachImage(imgs, value) == Append(imgs, value)

\* the McpResponse object of one invocation: what the tool declared
McpResponse(include, lines, networkOptions, consoleOptions, snapshot, reqid, msgid, imgs) ==
  [includePages |-> include, textResponseLines |-> lines,
   networkRequestsOptions |-> networkOptions, consoleDataOptions |-> consoleOptions,
   snapshotParams |-> snapshot, attachedNetworkRequestId |-> reqid,
   attachedConsoleMessageId |-> msgid, images |-> imgs]

\* formatA11ySnapshot(root): one line per node, parents before children
RECURSIVE formatA11ySnapshot(_, _)
formatA11ySnapshot(node, depth) ==
  LET line == <<"uid=">> \o node.id \o <<" ", node.role, " ", ToStr(depth)>>
      rest[i \in 0..Len(node.children)] ==
        IF i = 0 THEN <<>>
        ELSE rest[i - 1] \o formatA11ySnapshot(node.children[i], depth + 1)
  IN <<line>> \o rest[Len(node.children)]

\* handle(): formattedSnapshot as [err, textSnapshot, nextSnapshotId, text];
\* text is <<>> when undefined. rootNode is what the capture returns.
formattedSnapshot(w, params, snapshot, nextId, rootNode) ==
  IF params = <<>>
  THEN [err |-> "", textSnapshot |-> snapshot, nextSnapshotId |-> nextId, text |-> <<>>]
  ELSE
    LET page == getSelectedPage(w) IN
    IF page.err # ""
    THEN [err |-> page.err, textSnapshot |-> snapshot, nextSnapshotId |-> nextId,
          text |-> <<>>]
    ELSE
      LET created == createTextSnapshot(snapshot, nextId, rootNode) IN
      [err |-> "", textSnapshot |-> created.textSnapshot,
       nextSnapshotId |-> created.nextSnapshotId,
       text |->
         IF created.textSnapshot = <<>> THEN <<>>
         ELSE IF params[1].filePath # <<>>
         THEN << <<"Saved snapshot to ">> \o params[1].filePath \o <<".">> >>
         ELSE formatA11ySnapshot(created.textSnapshot[1].root, 0)]

\* handle(): consoleData of the attached message as [err, data]; data is
\* <<>> when undefined
consoleData(w, collector, id) ==
  IF ~TruthyNumber(id) THEN [err |-> "", data |-> <<>>]
  ELSE
    LET message == getConsoleMessageById(w, collector, id[1]) IN
    IF message.err # "" THEN [err |-> message.err, data |-> <<>>]
    ELSE [err |-> "",
          data |-> <<[consoleMessageStableId |-> id[1],
                      type |-> IF message.resource[1].kind = "console"
                               THEN message.resource[1].type ELSE "error"]>>]

\* formatConsoleEventVerbose
formatConsoleEventVerbose(message) ==
  <<"ID: ">> \o ToStr(message.consoleMessageStableId) \o <<" Message: ", message.type>>

\* #formatConsoleData
formatConsoleData(data) ==
  IF data = <<>> THEN <<>> ELSE <<formatConsoleEventVerbose(data[1])>>

\* #formatNetworkRequestData for a request without bodies, response,
\* failure or redirects: [err, lines]
formatNetworkRequestData(w, collector, id) ==
  IF ~TruthyNumber(id) THEN [err |-> "", lines |-> <<>>]
  ELSE
    LET httpRequest == getNetworkRequestById(w, collector, id[1]) IN
    IF httpRequest.err # "" THEN [err |-> httpRequest.err, lines |-> <<>>]
    ELSE [err |-> "",
          lines |-> << <<"## Request ", "url of ">> \o ToStr(httpRequest.resource[1].obj),
                       <<"Status:  ", "[pending]">>,
                       <<"### Request Headers">> >>]

\* the banners with the CPU banner shown from a rate of 1 on
bannersSection_RateAtLeastOne(w, page) ==
  LET networkConditions == getNetworkConditions(w, page)
      cpuThrottlingRate == getCpuThrottlingRate(w, page)
  IN (IF networkConditions # <<>>
      THEN << <<"## Network emulation">>,
              <<"Emulating: ">> \o networkConditions,
              <<"Default navigation timeout set to ">>
                \o ToStr(w.defaultNavigationTimeout[page]) \o <<" ms">> >>
      ELSE <<>>)
     \o (IF cpuThrottlingRate >= 1
         THEN << <<"## CPU emulation">>,
                 <<"Emulating: ">> \o ToStr(cpuThrottlingRate) \o <<"x slowdown">> >>
         ELSE <<>>)
     \o (IF w.dialog # <<>>
         THEN LET dialog_ == w.dialog[1]
                  defaultValueIfNeeded ==
                    IF dialog_.type = "prompt"
                    THEN <<" (default value: \"", "default", "\")">>
                    ELSE <<>>
              IN << <<"# Open dialog">>,
                    <<dialog_.type, ": ", "message">> \o defaultValueIfNeeded \o <<".">>,
                    <<"Call ", "handle_dialog", " to handle it before continuing.">> >>
         ELSE <<>>)

\* format(): the emulation and dialog banners of the selected page
bannersSection(w, page) ==
  LET networkConditions == getNetworkConditions(w, page)
      cpuThrottlingRate == getCpuThrottlingRate(w, page)
  IN (IF networkConditions # <<>>
      THEN << <<"## Network emulation">>,
              <<"Emulating: ">> \o networkConditions,
              <<"Default navigation timeout set to ">>
                \o ToStr(w.defaultNavigationTimeout[page]) \o <<" ms">> >>
      ELSE <<>>)
     \o (IF cpuThrottlingRate > 1
         THEN << <<"## CPU emulation">>,
                 <<"Emulating: ">> \o ToStr(cpuThrottlingRate) \o <<"x slowdown">> >>
         ELSE <<>>)
     \o (IF w.dialog # <<>>
         THEN LET dialog_ == w.dialog[1]
                  defaultValueIfNeeded ==
                    IF dialog_.type = "prompt"
                    THEN <<" (default value: \"", "default", "\")">>
                    ELSE <<>>
              IN << <<"# Open dialog">>,
                    <<dialog_.type, ": ", "message">> \o defaultValueIfNeeded \o <<".">>,
                    <<"Call ", "handle_dialog", " to handle it before continuing.">> >>
         ELSE <<>>)

\* format(): '## Page content' and the formatted snapshot
pageContentSection(text) ==
  IF text = <<>> THEN <<>> ELSE <<<<"## Page content">>>> \o text

\* the content items format() returns: the text, then the images
contentOf(lines, imgs) ==
  <<[type |-> "text", text |-> lines, data |-> ""]>>
    \o [i \in 1..Len(imgs) |-> [type |-> "image", text |-> <<>>, data |-> imgs[i]]]

format_ListsBeforeDetails(w, toolName, r, collector, snapshotText, attachedData, listData) ==
  LET page == getSelectedPage(w)
      request == formatNetworkRequestData(w, collector, r.attachedNetworkRequestId)
      network == networkRequestsSection(w, collector, r.networkRequestsOptions)
  IN
  IF page.err # "" THEN [err |-> page.err, content |-> <<>>]
  ELSE IF request.err # "" THEN [err |-> request.err, content |-> <<>>]
  ELSE IF network.err # "" THEN [err |-> network.err, content |-> <<>>]
  ELSE
    [err |-> "",
     content |->
       contentOf(
         <<<<"# ", toolName, " response">>>>
           \o r.textResponseLines
           \o bannersSection(w, page.page)
           \o pagesSection(w, r.includePages)
           \o network.lines
           \o consoleMessagesSection(r.consoleDataOptions, listData)
           \o pageContentSection(snapshotText)
           \o request.lines
           \o formatConsoleData(attachedData),
         r.images)]

\* McpResponse.format: [err, content]
format(w, toolName, r, collector, snapshotText, attachedData, listData) ==
  LET page == getSelectedPage(w)
      request == formatNetworkRequestData(w, collector, r.attachedNetworkRequestId)
      network == networkRequestsSection(w, collector, r.networkRequestsOptions)
  IN
  IF page.err # "" THEN [err |-> page.err, content |-> <<>>]
  ELSE IF request.err # "" THEN [err |-> request.err, content |-> <<>>]
  ELSE IF network.err # "" THEN [err |-> network.err, content |-> <<>>]
  ELSE
    [err |-> "",
     content |->
       contentOf(
         <<<<"# ", toolName, " response">>>>
           \o r.textResponseLines
           \o bannersSection(w, page.page)
           \o pagesSection(w, r.includePages)
           \o pageContentSection(snapshotText)
           \o request.lines
           \o formatConsoleData(attachedData)
           \o network.lines
           \o consoleMessagesSection(r.consoleDataOptions, listData),
         r.images)]

\* handle() refreshing the page list whether it was requested or not
handle_AlwaysRefresh(w, toolName, r, network, console, snapshot, nextId, rootNode) ==
  LET w1 == createPagesSnapshot(w)
      snap == formattedSnapshot(w1, r.snapshotParams, snapshot, nextId, rootNode)
      request == IF TruthyNumber(r.attachedNetworkRequestId)
                 THEN getNetworkRequestById(w1, network, r.attachedNetworkRequestId[1])
                 ELSE [err |-> "", resource |-> <<>>]
      attachedData == consoleData(w1, console, r.attachedConsoleMessageId)
      listData == consoleListData(w1, console, r.consoleDataOptions)
      formatted == format(w1, toolName, r, network, snap.text, attachedData.data, listData)
      err == IF snap.err # "" THEN snap.err
             ELSE IF request.err # "" THEN request.err
             ELSE IF attachedData.err # "" THEN attachedData.err
             ELSE IF listData.err # "" THEN listData.err
             ELSE formatted.err
  IN [w |-> w1, err |-> err,
      content |-> IF err = "" THEN formatted.content ELSE <<>>,
      textSnapshot |-> snap.textSnapshot, nextSnapshotId |-> snap.nextSnapshotId]

\* McpResponse.handle: [w, err, content, textSnapshot, nextSnapshotId]
handle(w, toolName, r, network, console, snapshot, nextId, rootNode) ==
  LET w1 == IF r.includePages THEN createPagesSnapshot(w) ELSE w
      snap == formattedSnapshot(w1, r.snapshotParams, snapshot, nextId, rootNode)
      request == IF TruthyNumber(r.attachedNetworkRequestId)
                 THEN getNetworkRequestById(w1, network, r.attachedNetworkRequestId[1])
                 ELSE [err |-> "", resource |-> <<>>]
      attachedData == consoleData(w1, console, r.attachedConsoleMessageId)
      listData == consoleListData(w1, console, r.consoleDataOptions)
      formatted == format(w1, toolName, r, network, snap.text, attachedData.data, listData)
      err == IF snap.err # "" THEN snap.err
             ELSE IF request.err # "" THEN request.err
             ELSE IF attachedData.err # "" THEN attachedData.err
             ELSE IF listData.err # "" THEN listData.err
             ELSE formatted.err
  IN [w |-> w1, err |-> err,
      content |-> IF err = "" THEN formatted.content ELSE <<>>,
      textSnapshot |-> snap.textSnapshot, nextSnapshotId |-> snap.nextSnapshotId]

\* McpResponse.handle from the statement after its k-th await on, until it
\* suspends at the next await it reaches, throws, or returns: stage 1 is the
\* await of createPagesSnapshot, 2 of createTextSnapshot and saveFile, 3 of
\* the attached request's bodies, 4 of the attached console message's
\* arguments, 5 of the console list's arguments; 6 is the return of format().
\* g holds the locals. [w, err, content, textSnapshot, nextSnapshotId, gathered]
RECURSIVE handleFrom(_, _, _, _, _, _, _, _, _, _)
handleFrom(w, toolName, r, network, console, snapshot, nextId, rootNode, g, k) ==
  LET out(w1, err, content, snap, id, g1, stage) ==
        [w |-> w1, err |-> err, content |-> content, textSnapshot |-> snap,
         nextSnapshotId |-> id, gathered |-> [g1 EXCEPT !.stage = stage]]
      next(g1) ==
        handleFrom(w, toolName, r, network, console, snapshot, nextId, rootNode, g1, k + 1)
  IN
  CASE k = 1 ->
         IF r.includePages
         THEN out(createPagesSnapshot(w), "", <<>>, snapshot, nextId, g, 1)
         ELSE next(g)
    [] k = 2 ->
         IF r.snapshotParams # <<>>
         THEN LET snap == formattedSnapshot(w, r.snapshotParams, snapshot, nextId, rootNode)
              IN out(w, snap.err, <<>>, snap.textSnapshot, snap.nextSnapshotId,
                     [g EXCEPT !.snapshotText = snap.text], 2)
         ELSE next(g)
    [] k = 3 ->
         IF TruthyNumber(r.attachedNetworkRequestId)
         THEN out(w, getNetworkRequestById(w, network, r.attachedNetworkRequestId[1]).err,
                  <<>>, snapshot, nextId, g, 3)
         ELSE next(g)
    [] k = 4 ->
         IF TruthyNumber(r.attachedConsoleMessageId)
         THEN LET message == getConsoleMessageById(w, console, r.attachedConsoleMessageId[1])
                  data == consoleData(w, console, r.attachedConsoleMessageId)
              IN IF data.err = "" /\ message.resource[1].kind # "console"
                 THEN next([g EXCEPT !.attachedData = data.data])
                 ELSE out(w, data.err, <<>>, snapshot, nextId,
                          [g EXCEPT !.attachedData = data.data], 4)
         ELSE next(g)
    [] k = 5 ->
         IF r.consoleDataOptions # <<>> /\ r.consoleDataOptions[1].include
         THEN LET listData == consoleListData(w, console, r.consoleDataOptions)
              IN out(w, listData.err, <<>>, snapshot, nextId,
                     [g EXCEPT !.listData = listData], 5)
         ELSE next(g)
    [] OTHER ->
         LET formatted ==
               format(w, toolName, r, network, g.snapshotText, g.attachedData, g.listData)
         IN out(w, formatted.err, formatted.content, snapshot, nextId, g, 6)

\* ------------------------------------------------------------------ actions
Apply(w) ==
  /\ browserPages' = w.browserPages
  /\ nextPageId' = w.nextPageId
  /\ dialogListeners' = w.dialogListeners
  /\ defaultTimeout' = w.defaultTimeout
  /\ defaultNavigationTimeout' = w.defaultNavigationTimeout
  /\ pages' = w.pages
  /\ selectedPageIdx' = w.selectedPageIdx
  /\ dialog' = w.dialog
  /\ networkConditionsMap' = w.networkConditionsMap
  /\ cpuThrottlingRateMap' = w.cpuThrottlingRateMap

Idle == phase = "idle"

\* McpContext.#init on a browser that shows n pages
InitWorld(n) ==
  setSelectedPageIdx(
    createPagesSnapshot(
      [browserPages |-> [i \in 1..n |-> i], nextPageId |-> n + 1,
       dialogListeners |-> [p \in PageIds |-> 0],
       defaultTimeout |-> [p \in PageIds |-> 0],
       defaultNavigationTimeout |-> [p \in PageIds |-> 0],
       pages |-> <<>>, selectedPageIdx |-> 0, dialog |-> <<>>,
       networkConditionsMap |-> [p \in PageIds |-> <<>>],
       cpuThrottlingRateMap |-> [p \in PageIds |-> <<>>],
       err |-> ""]),
    0)

InitSession ==
  \E n \in InitialPageCounts :
    /\ browserPages = InitWorld(n).browserPages
    /\ nextPageId = InitWorld(n).nextPageId
    /\ dialogListeners = InitWorld(n).dialogListeners
    /\ defaultTimeout = InitWorld(n).defaultTimeout
    /\ defaultNavigationTimeout = InitWorld(n).defaultNavigationTimeout
    /\ pages = InitWorld(n).pages
    /\ selectedPageIdx = InitWorld(n).selectedPageIdx
    /\ dialog = InitWorld(n).dialog
    /\ networkConditionsMap = InitWorld(n).networkConditionsMap
    /\ cpuThrottlingRateMap = InitWorld(n).cpuThrottlingRateMap

\* #networkCollector.init(), #consoleCollector.init()
InitCollectors ==
  /\ networkCollector = collectorInit(NewCollector, pages)
  /\ consoleCollector = collectorInit(NewCollector, pages)
  /\ nextObj = 1
  /\ navigations = [p \in PageIds |-> 0]
  /\ observed = <<>>

\* request.params of a tool call, every field possibly undefined
Params(tool, pageSize, pageIdx, filter, includePreserved) ==
  [tool |-> tool, pageSize |-> pageSize, pageIdx |-> pageIdx, filter |-> filter,
   includePreserved |-> includePreserved]

\* handle() has not been called on the McpResponse
NotCalled ==
  [stage |-> 0, called |-> <<>>, late |-> FALSE, snapshotText |-> <<>>,
   attachedData |-> <<>>, listData |-> [err |-> "", defined |-> FALSE, data |-> <<>>]]

InitResponse ==
  /\ phase = "idle"
  /\ includePages = FALSE
  /\ textResponseLines = <<>>
  /\ networkRequestsOptions = <<>>
  /\ consoleDataOptions = <<>>
  /\ requestParams = Params("", <<>>, <<>>, <<>>, <<>>)
  /\ snapshotParams = <<>>
  /\ attachedNetworkRequestId = <<>>
  /\ attachedConsoleMessageId = <<>>
  /\ images = <<>>
  /\ response = <<>>
  /\ gathered = NotCalled

InitSnapshot ==
  /\ textSnapshot = <<>>
  /\ nextSnapshotId = 1
  /\ attached = DomIds
  /\ captures = <<>>

Init ==
  /\ InitSession
  /\ InitSnapshot
  /\ InitCollectors
  /\ InitResponse
  /\ lastCall = [op |-> "init", arg |-> 0, err |-> ""]

\* context.newPage()
NewPage ==
  /\ Idle
  /\ nextPageId <= MaxPages
  /\ LET w == newPage(World) IN
     /\ Apply(w)
     /\ networkCollector' =
          IF w.err = "" THEN addPage(networkCollector, nextPageId) ELSE networkCollector
     /\ consoleCollector' =
          IF w.err = "" THEN addPage(consoleCollector, nextPageId) ELSE consoleCollector
     /\ lastCall' = [op |-> "newPage", arg |-> nextPageId, err |-> w.err]
  /\ UNCHANGED <<snapshotVars, responseVars, nextObj, navigations, observed>>

\* context.closePage(pageIdx)
ClosePage ==
  /\ Idle
  /\ \E pageIdx \in PageIdxArgs :
       LET w == closePage(World, pageIdx) IN
       /\ Apply(w)
       /\ lastCall' = [op |-> "closePage", arg |-> pageIdx, err |-> w.err]
  /\ UNCHANGED <<snapshotVars, collectorVars, responseVars>>

\* context.setSelectedPageIdx(idx)
SetSelectedPageIdx ==
  /\ Idle
  /\ \E idx \in PageIdxArgs :
       LET w == setSelectedPageIdx(World, idx) IN
       /\ Apply(w)
       /\ lastCall' = [op |-> "setSelectedPageIdx", arg |-> idx, err |-> w.err]
  /\ UNCHANGED <<snapshotVars, collectorVars, responseVars>>

\* context.createPagesSnapshot()
CreatePagesSnapshot ==
  /\ Idle
  /\ Apply(createPagesSnapshot(World))
  /\ lastCall' = [op |-> "createPagesSnapshot", arg |-> 0, err |-> ""]
  /\ UNCHANGED <<snapshotVars, collectorVars, responseVars>>

\* the browser: an open page p opens a modal dialog
DialogOpens ==
  /\ \E p \in PageIds, type \in DialogTypes :
       /\ InSeq(p, browserPages)
       /\ Apply(dialogEvent(World, p, type))
       /\ lastCall' = [op |-> "dialog", arg |-> p, err |-> ""]
  /\ UNCHANGED <<snapshotVars, collectorVars, responseVars>>

\* the close_page tool's handler, on a fresh McpResponse
ClosePageTool ==
  /\ Idle
  /\ \E pageIdx \in PageIdxArgs :
       LET w == closePage(World, pageIdx) IN
       /\ Apply(w)
       /\ lastCall' = [op |-> "close_page", arg |-> pageIdx,
                       err |-> IF w.err = CLOSE_PAGE_ERROR THEN "" ELSE w.err]
       /\ UNCHANGED <<snapshotVars, collectorVars, attachVars, gathered>>
       /\ networkRequestsOptions' = <<>>
       /\ consoleDataOptions' = <<>>
       /\ requestParams' = Params("close_page", <<>>, <<pageIdx>>, <<>>, <<>>)
       /\ response' = <<>>
       /\ IF w.err = ""
          THEN phase' = "declared" /\ includePages' = TRUE /\ textResponseLines' = <<>>
          ELSE IF w.err = CLOSE_PAGE_ERROR
               THEN /\ phase' = "declared"
                    /\ includePages' = TRUE
                    /\ textResponseLines' = appendResponseLine(<<>>, <<w.err>>)
               ELSE \* rethrown: the invocation fails, no response is built
                    phase' = "idle" /\ includePages' = FALSE /\ textResponseLines' = <<>>

\* the McpResponse of the invocation in progress
Response ==
  McpResponse(includePages, textResponseLines, networkRequestsOptions,
              consoleDataOptions, snapshotParams, attachedNetworkRequestId,
              attachedConsoleMessageId, images)

\* what page.accessibility.snapshot() returns while handle() runs: null or
\* a tree
RootNodes == {<<>>, <<TreeFlat>>}

\* response.handle(toolName, context) of the invocation in progress; when it
\* throws, the invocation fails and nothing is returned. lastCall.arg is 1
\* when the capture returned a tree.
Handle ==
  /\ phase = "declared"
  /\ snapshotParams # <<>> => nextSnapshotId <= MaxSnapshots
  /\ \E rootNode \in IF snapshotParams = <<>> THEN {<<>>} ELSE RootNodes :
       LET h == handle(World, requestParams.tool, Response,
                       networkCollector, consoleCollector,
                       textSnapshot, nextSnapshotId, rootNode)
       IN /\ Apply([h.w EXCEPT !.err = ""])
          /\ textSnapshot' = h.textSnapshot
          /\ nextSnapshotId' = h.nextSnapshotId
          /\ phase' = IF h.err = "" THEN "done" ELSE "idle"
          /\ response' = h.content
          /\ lastCall' = [op |-> "handle", arg |-> IF rootNode = <<>> THEN 0 ELSE 1,
                          err |-> h.err]
  /\ UNCHANGED <<includePages, textResponseLines, networkRequestsOptions,
                 consoleDataOptions, requestParams, attachVars, gathered, attached,
                 captures, collectorVars>>

\* the content handle() returned goes to the client and the invocation's
\* McpResponse is dropped
ReturnContent ==
  /\ phase = "done"
  /\ phase' = "idle"
  /\ includePages' = FALSE
  /\ textResponseLines' = <<>>
  /\ networkRequestsOptions' = <<>>
  /\ consoleDataOptions' = <<>>
  /\ requestParams' = Params("", <<>>, <<>>, <<>>, <<>>)
  /\ snapshotParams' = <<>>
  /\ attachedNetworkRequestId' = <<>>
  /\ attachedConsoleMessageId' = <<>>
  /\ images' = <<>>
  /\ response' = <<>>
  /\ gathered' = NotCalled
  /\ lastCall' = [op |-> "return", arg |-> 0, err |-> ""]
  /\ UNCHANGED <<sessionVars, snapshotVars, collectorVars>>

\* filters a caller may pass: omitted, empty, or a set of types
ResourceTypeFilters == {<<>>, <<{}>>, <<{"document"}>>}

ConsoleTypeFilters == {<<>>, <<{}>>, <<{"error"}>>, <<{"log"}>>}

PreservedArgs == {<<>>, <<TRUE>>}

\* the list_network_requests tool's handler, on a fresh McpResponse; no
\* DevTools window is attached, so getDevToolsData() resolves to undefined
ListNetworkRequestsTool ==
  /\ Idle
  /\ \E pageSize \in PageSizeArgs, pageIdx \in PageIdxOptions,
        resourceTypes \in ResourceTypeFilters, includePreservedRequests \in PreservedArgs :
       /\ requestParams' = Params("list_network_requests", pageSize, pageIdx,
                                  resourceTypes, includePreservedRequests)
       /\ networkRequestsOptions' =
            setIncludeNetworkRequests(TRUE,
              [pageSize |-> pageSize, pageIdx |-> pageIdx,
               resourceTypes |-> resourceTypes,
               includePreservedRequests |-> includePreservedRequests,
               networkRequestIdInDevToolsUI |-> <<>>])
  /\ consoleDataOptions' = <<>>
  /\ includePages' = FALSE
  /\ textResponseLines' = <<>>
  /\ response' = <<>>
  /\ phase' = "declared"
  /\ lastCall' = [op |-> "list_network_requests", arg |-> 0, err |-> ""]
  /\ UNCHANGED <<sessionVars, snapshotVars, collectorVars, attachVars, gathered>>

\* a tool handler that declares the console list on a fresh McpResponse
SetIncludeConsoleData ==
  /\ Idle
  /\ \E pageSize \in PageSizeArgs, pageIdx \in PageIdxOptions,
        types \in ConsoleTypeFilters, includePreservedMessages \in PreservedArgs :
       /\ requestParams' = Params("list_console_messages", pageSize, pageIdx,
                                  types, includePreservedMessages)
       /\ consoleDataOptions' =
            setIncludeConsoleData(TRUE,
              [pageSize |-> pageSize, pageIdx |-> pageIdx, types |-> types,
               includePreservedMessages |-> includePreservedMessages])
  /\ networkRequestsOptions' = <<>>
  /\ includePages' = FALSE
  /\ textResponseLines' = <<>>
  /\ response' = <<>>
  /\ phase' = "declared"
  /\ lastCall' = [op |-> "list_console_messages", arg |-> 0, err |-> ""]
  /\ UNCHANGED <<sessionVars, snapshotVars, collectorVars, attachVars, gathered>>

Next ==
  \/ NewPage
  \/ ClosePage
  \/ SetSelectedPageIdx
  \/ CreatePagesSnapshot
  \/ DialogOpens
  \/ ClosePageTool
  \/ Handle
  \/ ReturnContent

Spec == Init /\ [][Next]_vars

\* uids a caller may pass: <k>_<i> for every snapshot id k handed out so far
\* and the next one, and a string that is no uid
UidArgs ==
  {MakeUid(k, i) : k \in 1..nextSnapshotId, i \in UidIndexArgs} \cup {<<"x">>}

\* context.createTextSnapshot(): the capture returns a tree of attached
\* nodes, or null
CreateTextSnapshot ==
  /\ Idle
  /\ nextSnapshotId <= MaxSnapshots
  /\ getSelectedPage(World).err = ""
  /\ \E rootNode \in {<<>>} \cup {<<t>> : t \in {x \in RawTrees : DomOf(x) \subseteq attached}} :
       LET r == createTextSnapshot(textSnapshot, nextSnapshotId, rootNode) IN
       /\ textSnapshot' = r.textSnapshot
       /\ nextSnapshotId' = r.nextSnapshotId
       /\ lastCall' = [op |-> "createTextSnapshot", arg |-> 0, err |-> ""]
  /\ UNCHANGED <<sessionVars, collectorVars, responseVars, attached, captures>>

\* the page: a DOM node goes away, its element handle no longer resolves
DetachNode ==
  /\ \E d \in attached :
       /\ attached' = attached \ {d}
       /\ lastCall' = [op |-> "detach", arg |-> d, err |-> ""]
  /\ UNCHANGED <<sessionVars, collectorVars, responseVars, textSnapshot, nextSnapshotId,
                 captures>>

\* context.getElementByUid(uid)
GetElementByUid ==
  /\ Idle
  /\ \E uid \in UidArgs :
       lastCall' = [op |-> "getElementByUid", arg |-> uid,
                    err |-> getElementByUid(textSnapshot, attached, uid).err]
  /\ UNCHANGED <<sessionVars, collectorVars, responseVars, snapshotVars>>

NextSnapshot ==
  \/ CreateTextSnapshot
  \/ DetachNode
  \/ GetElementByUid

SpecSnapshot == Init /\ [][NextSnapshot]_vars

\* Types of the resources emitted while the collectors are watched: the
\* collectors never read a resource's type, the response filters do.
EmittedResourceTypes == {"document"}

EmittedConsoleTypes == {"log"}

\* the browser: open page p emits a request; the network collector's
\* listener collects it
RequestEvent ==
  /\ nextObj <= MaxResources
  /\ \E p \in PageIds, type \in EmittedResourceTypes :
       LET request == HTTPRequest(nextObj, type)
           c == collect(networkCollector, p, request)
       IN /\ InSeq(p, browserPages)
          /\ networkCollector' = c
          /\ observed' = Append(observed,
               [resource |-> request, page |-> p, navigation |-> navigations[p],
                id |-> getNetworkRequestStableId(c, request).id])
          /\ lastCall' = [op |-> "request", arg |-> p, err |-> ""]
  /\ nextObj' = nextObj + 1
  /\ UNCHANGED <<sessionVars, snapshotVars, responseVars, consoleCollector, navigations>>

\* the browser: open page p emits a console message or a page error; the
\* console collector's listeners collect it
ConsoleEvent ==
  /\ nextObj <= MaxResources
  /\ \E p \in PageIds,
        message \in {ConsoleMessage(nextObj, t) : t \in EmittedConsoleTypes}
                      \cup {PageError(nextObj)} :
       LET c == collect(consoleCollector, p, message) IN
       /\ InSeq(p, browserPages)
       /\ consoleCollector' = c
       /\ observed' = Append(observed,
            [resource |-> message, page |-> p, navigation |-> navigations[p],
             id |-> getConsoleMessageStableId(c, message).id])
       /\ lastCall' = [op |-> message.kind, arg |-> p, err |-> ""]
  /\ nextObj' = nextObj + 1
  /\ UNCHANGED <<sessionVars, snapshotVars, responseVars, networkCollector, navigations>>

\* top-level navigations completed so far, over all pages
RECURSIVE SumOver(_, _)
SumOver(f, S) ==
  IF S = {} THEN 0
  ELSE LET x == CHOOSE y \in S : TRUE IN f[x] + SumOver(f, S \ {x})

\* the browser: the top-level navigation of open page p completes
Navigated ==
  /\ SumOver(navigations, PageIds) < MaxNavigations
  /\ \E p \in PageIds :
       /\ InSeq(p, browserPages)
       /\ navigations' = [navigations EXCEPT ![p] = @ + 1]
       /\ networkCollector' = navigated(networkCollector, p)
       /\ consoleCollector' = navigated(consoleCollector, p)
       /\ lastCall' = [op |-> "navigated", arg |-> p, err |-> ""]
  /\ UNCHANGED <<sessionVars, snapshotVars, responseVars, nextObj, observed>>

NextCollector ==
  \/ RequestEvent
  \/ ConsoleEvent
  \/ Navigated

SpecCollector == Init /\ [][NextCollector]_vars

\* sequences over S of length at most n
SeqsUpTo(S, n) == UNION {[1..k -> S] : k \in 0..n}

\* the collector after its listener collected the resources on page p, in order
RECURSIVE collectAll(_, _, _)
collectAll(c, p, resources) ==
  IF resources = <<>> THEN c
  ELSE collectAll(collect(c, p, Head(resources)), p, Tail(resources))

\* A session whose selected page has already emitted requests and then
\* console messages and page errors, none of them followed by a navigation.
InitWithTraffic ==
  /\ InitSession
  /\ InitSnapshot
  /\ InitResponse
  /\ lastCall = [op |-> "init", arg |-> 0, err |-> ""]
  /\ navigations = [p \in PageIds |-> 0]
  /\ \E types \in SeqsUpTo(ResourceTypes, MaxResources),
        kinds \in SeqsUpTo(ConsoleTypes \cup {"pageerror"}, MaxResources) :
       LET page == pages[selectedPageIdx + 1]
           requests == [i \in 1..Len(types) |-> HTTPRequest(i, types[i])]
           messages ==
             [i \in 1..Len(kinds) |->
                IF kinds[i] = "pageerror" THEN PageError(Len(types) + i)
                ELSE ConsoleMessage(Len(types) + i, kinds[i])]
           network == collectAll(collectorInit(NewCollector, pages), page, requests)
           console == collectAll(collectorInit(NewCollector, pages), page, messages)
       IN /\ Len(types) + Len(kinds) <= MaxResources
          /\ networkCollector = network
          /\ consoleCollector = console
          /\ nextObj = Len(types) + Len(kinds) + 1
          /\ observed =
               [i \in 1..Len(types) |->
                  [resource |-> requests[i], page |-> page, navigation |-> 0,
                   id |-> getNetworkRequestStableId(network, requests[i]).id]]
               \o [i \in 1..Len(kinds) |->
                  [resource |-> messages[i], page |-> page, navigation |-> 0,
                   id |-> getConsoleMessageStableId(console, messages[i]).id]]

NextResponse ==
  \/ ListNetworkRequestsTool
  \/ SetIncludeConsoleData
  \/ Handle
  \/ ReturnContent

SpecResponse == InitWithTraffic /\ [][NextResponse]_vars

\* conditions the emulation tool may pass: null, or a label
NetworkConditionArgs ==
  {<<>>, <<"Offline">>, <<"Fast 4G">>, <<"Slow 4G">>, <<"Fast 3G">>, <<"Slow 3G">>}

CpuThrottlingRateArgs == {1, 4}

\* context.setNetworkConditions(conditions)
SetNetworkConditions ==
  /\ Idle
  /\ \E conditions \in NetworkConditionArgs :
       LET w == setNetworkConditions(World, conditions) IN
       /\ Apply([w EXCEPT !.err = ""])
       /\ lastCall' = [op |-> "setNetworkConditions", arg |-> conditions, err |-> w.err]
  /\ UNCHANGED <<snapshotVars, collectorVars, responseVars>>

\* context.setCpuThrottlingRate(rate)
SetCpuThrottlingRate ==
  /\ Idle
  /\ \E rate \in CpuThrottlingRateArgs :
       LET w == setCpuThrottlingRate(World, rate) IN
       /\ Apply([w EXCEPT !.err = ""])
       /\ lastCall' = [op |-> "setCpuThrottlingRate", arg |-> rate, err |-> w.err]
  /\ UNCHANGED <<snapshotVars, collectorVars, responseVars>>

SnapshotParamArgs ==
  {<<>>, <<[verbose |-> FALSE, filePath |-> <<>>]>>,
   <<[verbose |-> FALSE, filePath |-> <<"snapshot.txt">>]>>}

TextLineArgs == {<<>>, <<<<"first">>, <<"second">>>>}

ImageArgs == {<<>>, <<"png one", "png two">>}

AttachedIdArgs == {<<>>, <<1>>}

\* a tool handler that declares any combination of sections on a fresh
\* McpResponse: setIncludePages, appendResponseLine, includeSnapshot,
\* attachNetworkRequest, attachConsoleMessage, setIncludeNetworkRequests,
\* setIncludeConsoleData and attachImage
DeclareSections ==
  /\ Idle
  /\ \E include \in BOOLEAN, lines \in TextLineArgs, snapshot \in SnapshotParamArgs,
        reqid \in AttachedIdArgs, msgid \in AttachedIdArgs,
        network \in BOOLEAN, console \in BOOLEAN, imgs \in ImageArgs :
       /\ includePages' = include
       /\ textResponseLines' = lines
       /\ snapshotParams' = snapshot
       /\ attachedNetworkRequestId' = reqid
       /\ attachedConsoleMessageId' = msgid
       /\ networkRequestsOptions' =
            IF network
            THEN setIncludeNetworkRequests(TRUE,
                   [pageSize |-> <<>>, pageIdx |-> <<>>, resourceTypes |-> <<>>,
                    includePreservedRequests |-> <<>>,
                    networkRequestIdInDevToolsUI |-> <<>>])
            ELSE <<>>
       /\ consoleDataOptions' =
            IF console
            THEN setIncludeConsoleData(TRUE,
                   [pageSize |-> <<>>, pageIdx |-> <<>>, types |-> <<>>,
                    includePreservedMessages |-> <<>>])
            ELSE <<>>
       /\ images' = imgs
  /\ requestParams' = Params("tool", <<>>, <<>>, <<>>, <<>>)
  /\ response' = <<>>
  /\ gathered' = NotCalled
  /\ phase' = "declared"
  /\ lastCall' = [op |-> "declare", arg |-> 0, err |-> ""]
  /\ UNCHANGED <<sessionVars, snapshotVars, collectorVars>>

\* A session whose selected page has emitted one request and one console
\* message.
InitOneOfEach ==
  /\ InitSession
  /\ InitSnapshot
  /\ InitResponse
  /\ lastCall = [op |-> "init", arg |-> 0, err |-> ""]
  /\ navigations = [p \in PageIds |-> 0]
  /\ LET page == pages[selectedPageIdx + 1]
         request == HTTPRequest(1, "document")
         message == ConsoleMessage(2, "log")
         network == collect(collectorInit(NewCollector, pages), page, request)
         console == collect(collectorInit(NewCollector, pages), page, message)
     IN /\ networkCollector = network
        /\ consoleCollector = console
        /\ nextObj = 3
        /\ observed =
             <<[resource |-> request, page |-> page, navigation |-> 0,
                id |-> getNetworkRequestStableId(network, request).id],
               [resource |-> message, page |-> page, navigation |-> 0,
                id |-> getConsoleMessageStableId(console, message).id]>>

\* Emulation is set up, a dialog may open, a tool declares its sections and
\* the response is rendered.
NextRender ==
  \/ SetNetworkConditions
  \/ SetCpuThrottlingRate
  \/ DialogOpens
  \/ DeclareSections
  \/ Handle

SpecRender == InitOneOfEach /\ [][NextRender]_vars

\* handle() runs from the statement after its await number `from` to the next
\* await it reaches, to a throw, or to its return
HandleFrom(from) ==
  /\ snapshotParams # <<>> => nextSnapshotId <= MaxSnapshots
  /\ \E rootNode \in IF snapshotParams = <<>> THEN {<<>>} ELSE RootNodes :
       LET g == IF from = 1 THEN [NotCalled EXCEPT !.called = <<Response>>] ELSE gathered
           h == handleFrom(World, requestParams.tool, Response,
                           networkCollector, consoleCollector,
                           textSnapshot, nextSnapshotId, rootNode, g, from)
       IN /\ Apply([h.w EXCEPT !.err = ""])
          /\ textSnapshot' = h.textSnapshot
          /\ nextSnapshotId' = h.nextSnapshotId
          /\ gathered' = h.gathered
          /\ phase' = IF h.err # "" THEN "idle"
                      ELSE IF h.gathered.stage = 6 THEN "done" ELSE "gathering"
          /\ response' = h.content
          /\ lastCall' = [op |-> "handle", arg |-> h.gathered.stage, err |-> h.err]
  /\ UNCHANGED <<includePages, textResponseLines, networkRequestsOptions,
                 consoleDataOptions, requestParams, attachVars, attached,
                 captures, collectorVars>>

\* response.handle(toolName, context) is called and runs to its first await
HandleCall == phase = "declared" /\ HandleFrom(1)

\* the promise handle() awaits settles and handle() runs on
HandleResume == phase = "gathering" /\ HandleFrom(gathered.stage + 1)

\* While handle() is suspended at an await, something the tool handler left
\* running calls a declare method of the same McpResponse; the methods are
\* plain setters. One such call per invocation.
LateDeclare ==
  /\ phase = "gathering"
  /\ ~gathered.late
  /\ gathered' = [gathered EXCEPT !.late = TRUE]
  /\ \/ \E value \in BOOLEAN :
          /\ includePages' = value
          /\ UNCHANGED <<networkRequestsOptions, consoleDataOptions, attachVars>>
     \/ /\ snapshotParams' = <<[verbose |-> FALSE, filePath |-> <<>>]>>
        /\ UNCHANGED <<includePages, networkRequestsOptions, consoleDataOptions,
                       attachedNetworkRequestId, attachedConsoleMessageId, images>>
     \/ \E value \in BOOLEAN :
          /\ networkRequestsOptions' =
               setIncludeNetworkRequests(value,
                 [pageSize |-> <<>>, pageIdx |-> <<>>, resourceTypes |-> <<>>,
                  includePreservedRequests |-> <<>>,
                  networkRequestIdInDevToolsUI |-> <<>>])
          /\ UNCHANGED <<includePages, consoleDataOptions, attachVars>>
     \/ \E value \in BOOLEAN :
          /\ consoleDataOptions' =
               setIncludeConsoleData(value,
                 [pageSize |-> <<>>, pageIdx |-> <<>>, types |-> <<>>,
                  includePreservedMessages |-> <<>>])
          /\ UNCHANGED <<includePages, networkRequestsOptions, attachVars>>
     \/ /\ attachedNetworkRequestId' = <<1>>
        /\ UNCHANGED <<includePages, networkRequestsOptions, consoleDataOptions,
                       snapshotParams, attachedConsoleMessageId, images>>
     \/ /\ attachedConsoleMessageId' = <<1>>
        /\ UNCHANGED <<includePages, networkRequestsOptions, consoleDataOptions,
                       snapshotParams, attachedNetworkRequestId, images>>
  /\ lastCall' = [op |-> "late declare", arg |-> gathered.stage, err |-> ""]
  /\ UNCHANGED <<sessionVars, snapshotVars, collectorVars, phase, textResponseLines,
                 requestParams, response>>

\* A tool declares its sections; handle() runs await by await, and a declare
\* method may be called while it is suspended.
NextLateDeclare ==
  \/ DeclareSections
  \/ HandleCall
  \/ HandleResume
  \/ LateDeclare

SpecLateDeclare == InitOneOfEach /\ [][NextLateDeclare]_vars

\* how a navigation of the page ends: "" when it succeeds, else the message
\* of the error page.goto / goBack / goForward / reload throws
NavigationOutcomes == {"", "net::ERR_CONNECTION_REFUSED", "Navigation timeout exceeded"}

NavigationTypes == {<<>>, <<"url">>, <<"back">>, <<"forward">>, <<"reload">>}

UrlArgs == {<<>>, <<"https://example.test/">>}

EitherRequiredError == "Either URL or a type is required."

UrlRequiredError == "A URL is required for navigation of type=url."

NoOpenDialogError == "No open dialog found"

\* page.url() of page p
urlOf(p) == <<"page ">> \o ToStr(p)

navigatePageLine_AlwaysSuccess(type, url, p, error) ==
  CASE type = "url" -> <<"Successfully navigated to ">> \o url \o <<".">>
    [] type = "back" -> <<"Successfully navigated back to ">> \o urlOf(p) \o <<".">>
    [] type = "forward" -> <<"Successfully navigated forward to ">> \o urlOf(p) \o <<".">>
    [] OTHER -> <<"Successfully reloaded the page.">>

\* navigatePage.handler: the line the switch appends for a navigation of
\* page p that ended with error ("" for success)
navigatePageLine(type, url, p, error) ==
  CASE type = "url" ->
         IF error = "" THEN <<"Successfully navigated to ">> \o url \o <<".">>
         ELSE <<"Unable to navigate in the  selected page: ", error, ".">>
    [] type = "back" ->
         IF error = "" THEN <<"Successfully navigated back to ">> \o urlOf(p) \o <<".">>
         ELSE <<"Unable to navigate back in the selected page: ", error, ".">>
    [] type = "forward" ->
         IF error = "" THEN <<"Successfully navigated forward to ">> \o urlOf(p) \o <<".">>
         ELSE <<"Unable to navigate forward in the selected page: ", error, ".">>
    [] OTHER ->
         IF error = "" THEN <<"Successfully reloaded the page.">>
         ELSE <<"Unable to reload the selected page: ", error, ".">>

\* a tool handler returned after declaring the page list and these lines
HandlerReturns(lines) ==
  /\ phase' = "declared"
  /\ includePages' = TRUE
  /\ textResponseLines' = lines

\* a tool handler threw: the invocation fails, no response is built
HandlerThrows ==
  /\ phase' = "idle"
  /\ includePages' = FALSE
  /\ textResponseLines' = <<>>

\* the new_page tool's handler, on a fresh McpResponse
NewPageTool ==
  /\ Idle
  /\ nextPageId <= MaxPages
  /\ \E outcome \in NavigationOutcomes :
       LET w == newPage(World)
           err == IF w.err # "" THEN w.err
                  ELSE IF getSelectedPage(w).err # "" THEN getSelectedPage(w).err
                  ELSE outcome
       IN /\ Apply([w EXCEPT !.err = ""])
          /\ networkCollector' =
               IF w.err = "" THEN addPage(networkCollector, nextPageId) ELSE networkCollector
          /\ consoleCollector' =
               IF w.err = "" THEN addPage(consoleCollector, nextPageId) ELSE consoleCollector
          /\ IF err = "" THEN HandlerReturns(<<>>) ELSE HandlerThrows
          /\ lastCall' = [op |-> "new_page", arg |-> nextPageId, err |-> err]
  /\ requestParams' = Params("new_page", <<>>, <<>>, <<>>, <<>>)
  /\ networkRequestsOptions' = <<>>
  /\ consoleDataOptions' = <<>>
  /\ response' = <<>>
  /\ UNCHANGED <<snapshotVars, nextObj, navigations, observed, attachVars, gathered>>

\* the navigate_page tool's handler, on a fresh McpResponse
NavigatePageTool ==
  /\ Idle
  /\ \E type \in NavigationTypes, url \in UrlArgs, outcome \in NavigationOutcomes :
       LET page == getSelectedPage(World)
           err == IF page.err # "" THEN page.err
                  ELSE IF type = <<>> /\ url = <<>> THEN EitherRequiredError
                  ELSE IF type \in {<<>>, <<"url">>} /\ url = <<>> THEN UrlRequiredError
                  ELSE ""
           navigation == IF type = <<>> THEN "url" ELSE type[1]
       IN /\ IF err = ""
             THEN HandlerReturns(
                    appendResponseLine(<<>>,
                      navigatePageLine(navigation, url, page.page, outcome)))
             ELSE HandlerThrows
          \* arg: 1 when the navigation was attempted and failed
          /\ lastCall' = [op |-> "navigate_page",
                          arg |-> IF err = "" /\ outcome # "" THEN 1 ELSE 0,
                          err |-> err]
  /\ requestParams' = Params("navigate_page", <<>>, <<>>, <<>>, <<>>)
  /\ networkRequestsOptions' = <<>>
  /\ consoleDataOptions' = <<>>
  /\ response' = <<>>
  /\ UNCHANGED <<sessionVars, snapshotVars, collectorVars, attachVars, gathered>>

DialogActions == {"accept", "dismiss"}

\* how dialog.accept() / dialog.dismiss() ends: "" when it resolves, else the
\* message of the error it throws
DialogOutcomes == {"", "Cannot accept dialog which is already handled!"}

\* McpContext.clearDialog
clearDialog(w) == [w EXCEPT !.dialog = <<>>]

\* the handler passing on what accept() / dismiss() throws
handleDialogHandler_Rethrow(w, action, outcome) ==
  IF w.dialog = <<>> THEN [w |-> w, err |-> NoOpenDialogError, lines |-> <<>>]
  ELSE IF outcome # "" THEN [w |-> w, err |-> outcome, lines |-> <<>>]
  ELSE
    [w |-> clearDialog(w), err |-> "",
     lines |->
       appendResponseLine(<<>>,
         IF action = "accept" THEN <<"Successfully accepted the dialog">>
         ELSE <<"Successfully dismissed the dialog">>)]

\* handleDialog.handler: [w, err, lines]; what dialog.accept() or
\* dialog.dismiss() throws is logged and dropped
handleDialogHandler(w, action, outcome) ==
  IF w.dialog = <<>> THEN [w |-> w, err |-> NoOpenDialogError, lines |-> <<>>]
  ELSE
    [w |-> clearDialog(w), err |-> "",
     lines |->
       appendResponseLine(<<>>,
         IF action = "accept" THEN <<"Successfully accepted the dialog">>
         ELSE <<"Successfully dismissed the dialog">>)]

\* the handle_dialog tool's handler, on a fresh McpResponse; lastCall.arg is
\* 1 when accept() or dismiss() threw
HandleDialogTool ==
  /\ Idle
  /\ \E action \in DialogActions, outcome \in DialogOutcomes :
       LET h == handleDialogHandler(World, action, outcome) IN
       /\ Apply(h.w)
       /\ IF h.err = "" THEN HandlerReturns(h.lines) ELSE HandlerThrows
       /\ lastCall' = [op |-> "handle_dialog",
                       arg |-> IF dialog # <<>> /\ outcome # "" THEN 1 ELSE 0,
                       err |-> h.err]
  /\ requestParams' = Params("handle_dialog", <<>>, <<>>, <<>>, <<>>)
  /\ networkRequestsOptions' = <<>>
  /\ consoleDataOptions' = <<>>
  /\ response' = <<>>
  /\ UNCHANGED <<snapshotVars, collectorVars, attachVars, gathered>>

\* The page tools are invoked one after the other; each response is rendered
\* and returned. Pages may also be closed behind the page list's back.
NextPageTools ==
  \/ NewPageTool
  \/ NavigatePageTool
  \/ HandleDialogTool
  \/ ClosePageTool
  \/ ClosePage
  \/ DialogOpens
  \/ Handle
  \/ ReturnContent

SpecPageTools == Init /\ [][NextPageTools]_vars

\* Only the selection and the emulation settings of McpContext change.
NextEmulation ==
  \/ SetSelectedPageIdx
  \/ SetNetworkConditions
  \/ SetCpuThrottlingRate

SpecEmulation == Init /\ [][NextEmulation]_vars

\* Only the page operations of McpContext act.
NextPageOps ==
  \/ NewPage
  \/ ClosePage
  \/ SetSelectedPageIdx
  \/ CreatePagesSnapshot

SpecPageOps == Init /\ [][NextPageOps]_vars

\* createTextSnapshot() calls made in one run
MaxCaptures == 3

\* context.createTextSnapshot() up to its await: the selected page is read
\* and the capture of its accessibility tree starts. Calls may overlap.
CaptureCall ==
  /\ Len(captures) < MaxCaptures
  /\ LET page == getSelectedPage(World) IN
     /\ captures' = IF page.err = "" THEN Append(captures, "pending") ELSE captures
     /\ lastCall' = [op |-> "createTextSnapshot call", arg |-> Len(captures) + 1,
                     err |-> page.err]
  /\ UNCHANGED <<sessionVars, collectorVars, responseVars, textSnapshot, nextSnapshotId,
                 attached>>

\* page.accessibility.snapshot() of call i settles and createTextSnapshot()
\* runs from there to its end without another await
CaptureSettles ==
  /\ \E i \in 1..Len(captures) :
       /\ captures[i] = "pending"
       /\ \E rootNode \in {<<>>} \cup {<<t>> : t \in {x \in RawTrees : DomOf(x) \subseteq attached}} :
            LET r == createTextSnapshot(textSnapshot, nextSnapshotId, rootNode) IN
            /\ textSnapshot' = r.textSnapshot
            /\ nextSnapshotId' = r.nextSnapshotId
            /\ captures' = [captures EXCEPT ![i] = IF rootNode = <<>> THEN "null" ELSE "tree"]
            /\ lastCall' = [op |-> "createTextSnapshot return", arg |-> i, err |-> ""]
  /\ UNCHANGED <<sessionVars, collectorVars, responseVars, attached>>

\* Snapshots are captured by calls that may overlap, while uids are looked up.
NextCapture ==
  \/ CaptureCall
  \/ CaptureSettles
  \/ GetElementByUid

SpecCapture == Init /\ [][NextCapture]_vars

\* lines and images one handler appends
MaxAppends == 2

\* ids a handler may attach
AttachableIds == 1..2

\* a tool is invoked: its handler starts with a fresh McpResponse
ToolCalled ==
  /\ Idle
  /\ phase' = "declaring"
  /\ requestParams' = Params("tool", <<>>, <<>>, <<>>, <<>>)
  /\ lastCall' = [op |-> "tool called", arg |-> 0, err |-> ""]
  /\ UNCHANGED <<sessionVars, snapshotVars, collectorVars, includePages, textResponseLines,
                 networkRequestsOptions, consoleDataOptions, attachVars, response, gathered>>

\* the running handler calls one declare method of its McpResponse
DeclareCall(op, arg) ==
  /\ phase = "declaring"
  /\ lastCall' = [op |-> op, arg |-> arg, err |-> ""]
  /\ UNCHANGED <<sessionVars, snapshotVars, collectorVars, phase, requestParams, response,
                 gathered>>

SetIncludePages ==
  \E value \in BOOLEAN :
    /\ DeclareCall("setIncludePages", 0)
    /\ includePages' = value
    /\ UNCHANGED <<textResponseLines, networkRequestsOptions, consoleDataOptions, attachVars>>

IncludeSnapshot ==
  \E params \in SnapshotParamArgs :
    /\ DeclareCall("includeSnapshot", 0)
    /\ snapshotParams' = includeSnapshot(params)
    /\ UNCHANGED <<includePages, textResponseLines, networkRequestsOptions,
                   consoleDataOptions, attachedNetworkRequestId, attachedConsoleMessageId,
                   images>>

SetIncludeNetworkRequests ==
  \E value \in BOOLEAN :
    /\ DeclareCall("setIncludeNetworkRequests", 0)
    /\ networkRequestsOptions' =
         setIncludeNetworkRequests(value,
           [pageSize |-> <<>>, pageIdx |-> <<>>, resourceTypes |-> <<>>,
            includePreservedRequests |-> <<>>, networkRequestIdInDevToolsUI |-> <<>>])
    /\ UNCHANGED <<includePages, textResponseLines, consoleDataOptions, attachVars>>

SetIncludeConsoleDataCall ==
  \E value \in BOOLEAN :
    /\ DeclareCall("setIncludeConsoleData", 0)
    /\ consoleDataOptions' =
         setIncludeConsoleData(value,
           [pageSize |-> <<>>, pageIdx |-> <<>>, types |-> <<>>,
            includePreservedMessages |-> <<>>])
    /\ UNCHANGED <<includePages, textResponseLines, networkRequestsOptions, attachVars>>

AttachNetworkRequest ==
  \E reqid \in AttachableIds :
    /\ DeclareCall("attachNetworkRequest", reqid)
    /\ attachedNetworkRequestId' = <<reqid>>
    /\ UNCHANGED <<includePages, textResponseLines, networkRequestsOptions,
                   consoleDataOptions, snapshotParams, attachedConsoleMessageId, images>>

AttachConsoleMessage ==
  \E msgid \in AttachableIds :
    /\ DeclareCall("attachConsoleMessage", msgid)
    /\ attachedConsoleMessageId' = <<msgid>>
    /\ UNCHANGED <<includePages, textResponseLines, networkRequestsOptions,
                   consoleDataOptions, snapshotParams, attachedNetworkRequestId, images>>

AppendResponseLine ==
  /\ Len(textResponseLines) < MaxAppends
  /\ \E value \in {<<"first">>, <<"second">>} :
       /\ DeclareCall("appendResponseLine", 0)
       /\ textResponseLines' = appendResponseLine(textResponseLines, value)
       /\ UNCHANGED <<includePages, networkRequestsOptions, consoleDataOptions, attachVars>>

AttachImage ==
  /\ Len(images) < MaxAppends
  /\ \E value \in {"png one"} :
       /\ DeclareCall("attachImage", 0)
       /\ images' = attachImage(images, value)
       /\ UNCHANGED <<includePages, textResponseLines, networkRequestsOptions,
                      consoleDataOptions, snapshotParams, attachedNetworkRequestId,
                      attachedConsoleMessageId>>

\* A tool handler declares, call by call, while the page may open a dialog.
NextDeclare ==
  \/ ToolCalled
  \/ SetIncludePages
  \/ IncludeSnapshot
  \/ SetIncludeNetworkRequests
  \/ SetIncludeConsoleDataCall
  \/ AttachNetworkRequest
  \/ AttachConsoleMessage
  \/ AppendResponseLine
  \/ AttachImage
  \/ DialogOpens

SpecDeclare == InitOneOfEach /\ [][NextDeclare]_vars

\* filters a list tool may pass when the selected page holds one document
\* request and one log message: none, or a type nothing on the page has
UnmatchedRequestFilters == {<<>>, <<{"image"}>>}

UnmatchedMessageFilters == {<<>>, <<{"error"}>>}

\* a tool handler that declares the page list and the two lists, filtered or
\* not, on a fresh McpResponse
DeclareLists ==
  /\ Idle
  /\ \E include \in BOOLEAN, network \in BOOLEAN, console \in BOOLEAN,
        pageSize \in {<<>>, <<1>>},
        resourceTypes \in UnmatchedRequestFilters, types \in UnmatchedMessageFilters :
       /\ includePages' = include
       /\ networkRequestsOptions' =
            IF network
            THEN setIncludeNetworkRequests(TRUE,
                   [pageSize |-> pageSize, pageIdx |-> <<>>,
                    resourceTypes |-> resourceTypes,
                    includePreservedRequests |-> <<>>,
                    networkRequestIdInDevToolsUI |-> <<>>])
            ELSE <<>>
       /\ consoleDataOptions' =
            IF console
            THEN setIncludeConsoleData(TRUE,
                   [pageSize |-> pageSize, pageIdx |-> <<>>, types |-> types,
                    includePreservedMessages |-> <<>>])
            ELSE <<>>
       /\ requestParams' = Params("tool", pageSize, <<>>, <<>>, <<>>)
  /\ textResponseLines' = <<>>
  /\ response' = <<>>
  /\ phase' = "declared"
  /\ lastCall' = [op |-> "declare", arg |-> 0, err |-> ""]
  /\ UNCHANGED <<sessionVars, snapshotVars, collectorVars, attachVars, gathered>>

\* Emulation is switched on and off, dialogs open, and tools that declare the
\* page list and the lists are rendered one after the other.
NextSections ==
  \/ SetNetworkConditions
  \/ SetCpuThrottlingRate
  \/ DialogOpens
  \/ DeclareLists
  \/ Handle
  \/ ReturnContent

SpecSections == InitOneOfEach /\ [][NextSections]_vars

\* snapshot directives a tool may declare: none, or a snapshot in the text
GatherSnapshotArgs == {<<>>, <<[verbose |-> FALSE, filePath |-> <<>>]>>}

\* a tool handler that declares the page list, a snapshot, both or neither on
\* a fresh McpResponse
DeclareGather ==
  /\ Idle
  /\ \E include \in BOOLEAN, snapshot \in GatherSnapshotArgs :
       /\ includePages' = include
       /\ snapshotParams' = snapshot
  /\ requestParams' = Params("tool", <<>>, <<>>, <<>>, <<>>)
  /\ response' = <<>>
  /\ phase' = "declared"
  /\ lastCall' = [op |-> "declare", arg |-> 0, err |-> ""]
  /\ UNCHANGED <<sessionVars, snapshotVars, collectorVars, textResponseLines,
                 networkRequestsOptions, consoleDataOptions, attachedNetworkRequestId,
                 attachedConsoleMessageId, images, gathered>>

\* Pages are opened and closed between tool calls that declare the page list
\* and a snapshot or leave them out.
NextGather ==
  \/ NewPage
  \/ ClosePage
  \/ DeclareGather
  \/ Handle
  \/ ReturnContent

SpecGather == Init /\ [][NextGather]_vars

\* the browser: an open page p is closed from outside the session
PageClosedOutside ==
  /\ Idle
  /\ \E p \in PageIds :
       /\ InSeq(p, browserPages)
       /\ Apply(pageClose(World, p))
       /\ lastCall' = [op |-> "page closed", arg |-> p, err |-> ""]
  /\ UNCHANGED <<snapshotVars, collectorVars, responseVars>>

\* The page operations of McpContext act while pages are also closed from
\* outside.
NextRecovery ==
  \/ NewPage
  \/ ClosePage
  \/ PageClosedOutside
  \/ SetSelectedPageIdx
  \/ CreatePagesSnapshot

SpecRecovery == Init /\ [][NextRecovery]_vars

\* context.setSelectedPageIdx(idx) with an index getPageByIdx accepts, as the
\* select_page tool calls it
SelectListedPage ==
  /\ Idle
  /\ \E idx \in PageIdxArgs :
       /\ getPageByIdx(World, idx).err = ""
       /\ LET w == setSelectedPageIdx(World, idx) IN
          /\ Apply(w)
          /\ lastCall' = [op |-> "setSelectedPageIdx", arg |-> idx, err |-> w.err]
  /\ UNCHANGED <<snapshotVars, collectorVars, responseVars>>

\* The page operations of McpContext, selecting only pages of the page list.
NextSelection ==
  \/ NewPage
  \/ ClosePage
  \/ SelectListedPage
  \/ CreatePagesSnapshot

SpecSelection == Init /\ [][NextSelection]_vars

\* the get_network_request tool's handler called with a reqid, on a fresh
\* McpResponse
GetNetworkRequestTool ==
  /\ Idle
  /\ \E reqid \in AttachableIds :
       /\ attachedNetworkRequestId' = <<reqid>>
       /\ lastCall' = [op |-> "get_network_request", arg |-> reqid, err |-> ""]
  /\ requestParams' = Params("get_network_request", <<>>, <<>>, <<>>, <<>>)
  /\ includePages' = FALSE
  /\ textResponseLines' = <<>>
  /\ networkRequestsOptions' = <<>>
  /\ consoleDataOptions' = <<>>
  /\ response' = <<>>
  /\ gathered' = NotCalled
  /\ phase' = "declared"
  /\ UNCHANGED <<sessionVars, snapshotVars, collectorVars, snapshotParams,
                 attachedConsoleMessageId, images>>

\* get_network_request is invoked while the browser goes on emitting
\* requests and completing navigations, also while handle() is suspended.
NextAttached ==
  \/ GetNetworkRequestTool
  \/ HandleCall
  \/ HandleResume
  \/ RequestEvent
  \/ Navigated
  \/ ReturnContent

SpecAttached == InitOneOfEach /\ [][NextAttached]_vars

\* ------------------------------------------------------------------- claims
\* The page the session regards as selected: #pages[#selectedPageIdx], if any.
SelectedPages ==
  IF selectedPageIdx >= 0 /\ selectedPageIdx < Len(pages)
  THEN {pages[selectedPageIdx + 1]} ELSE {}

\* Every uid <k>_<i> of a snapshot older than the current one is rejected as
\* stale. Snapshot ids are handed out in order, a null capture takes none, so
\* the snapshots before the current one are 1 .. nextSnapshotId - 2.
StaleUidsFail ==
  \A k \in 1..(nextSnapshotId - 2), i \in UidIndexArgs :
    getElementByUid(textSnapshot, attached, MakeUid(k, i)).err = StaleUidError

\* C1 as stated: once a snapshot S2 exists, every uid of an earlier snapshot S1
\* fails with the stale-snapshot error, and every uid of the current snapshot
\* resolves.
C1_StaleFailsCurrentResolves ==
  textSnapshot # <<>> =>
    /\ StaleUidsFail
    /\ \A uid \in DOMAIN textSnapshot[1].idToNode :
         getElementByUid(textSnapshot, attached, uid).err = ""

\* C1, amended: once a snapshot S2 exists, every uid of an earlier snapshot S1
\* fails with the stale-snapshot error; a uid of the current snapshot is never
\* rejected as stale, and it resolves to the element of its node exactly when
\* that element's handle can still be resolved.
C1_StaleFailsCurrentResolvesIfAttached ==
  textSnapshot # <<>> =>
    /\ StaleUidsFail
    /\ \A uid \in DOMAIN textSnapshot[1].idToNode :
         LET r == getElementByUid(textSnapshot, attached, uid)
             dom == textSnapshot[1].idToNode[uid].dom
         IN IF dom \in attached
            THEN r.err = "" /\ r.handle = dom
            ELSE r.err = NoSuchElementError

\* C1 witness: uid 1_0, the root of the first snapshot, was looked up and
\* rejected as stale while the current snapshot, number 10, still holds the
\* same root element, attached.
C1_Witness ==
  /\ lastCall.op = "getElementByUid"
  /\ lastCall.arg = <<"1", "_", "0">>
  /\ lastCall.err = StaleUidError
  /\ textSnapshot # <<>>
  /\ textSnapshot[1].snapshotId = <<"1", "0">>
  /\ textSnapshot[1].root.dom = 1
  /\ 1 \in attached

\* C2: after any sequence of newPage and closePage operations, also with no
\* page-list refresh between two closePage calls, at least one page remains
\* open in the browser.
C2_LastPageStaysOpen == Len(browserPages) >= 1

\* C3: closing the only open page through the close_page tool fails with
\* CLOSE_PAGE_ERROR, which the tool turns into a response line; the page list,
\* the selected index and the dialog listener registration stay as they were
\* and no page is closed.
C3_ClosingOnlyPageRejected ==
  [][(/\ lastCall'.op = "close_page"
      /\ Len(browserPages) = 1
      /\ lastCall'.arg < Len(pages)
      /\ pages[lastCall'.arg + 1] = browserPages[1])
     => (/\ textResponseLines' = <<<<CLOSE_PAGE_ERROR>>>>
         /\ phase' = "declared"
         /\ lastCall'.err = ""
         /\ browserPages' = browserPages
         /\ pages' = pages
         /\ selectedPageIdx' = selectedPageIdx
         /\ dialogListeners' = dialogListeners)]_vars

\* C4: in every reachable state the dialog-capture listener is registered on
\* exactly the currently selected page and on no other page.
C4_DialogListenerOnSelectedPageOnly ==
  \A p \in PageIds : (dialogListeners[p] > 0) <=> (p \in SelectedPages)

\* --------------------------------------------------------------- collectors
\* The world with the page at index idx selected.
Selecting(idx) == [World EXCEPT !.selectedPageIdx = idx]

IsRequest(o) == o.resource.kind = "request"

\* What the browser emitted on page p for one collector, in order, no older
\* than maxAge navigations.
EmittedOn(p, requests, maxAge) ==
  SeqMap(ResourceOf,
         SelectSeq(observed,
                   LAMBDA o : /\ o.page = p
                              /\ IsRequest(o) = requests
                              /\ navigations[p] - o.navigation <= maxAge))

\* C5: for every open page, selected in turn, the preserved retrieval returns
\* exactly the resources emitted on it during the current navigation and the
\* three before it, in order, and nothing older; the retrieval without the
\* flag (false or undefined) returns exactly those of the current navigation.
C5_RetentionWindow ==
  \A i \in 1..Len(pages) :
    InSeq(pages[i], browserPages) =>
      LET w == Selecting(i - 1)
          p == pages[i]
      IN /\ getNetworkRequests(w, networkCollector, <<TRUE>>)
              = [err |-> "", data |-> EmittedOn(p, TRUE, PreservedNavigations)]
         /\ getConsoleData(w, consoleCollector, <<TRUE>>)
              = [err |-> "", data |-> EmittedOn(p, FALSE, PreservedNavigations)]
         /\ \A flag \in {<<>>, <<FALSE>>} :
              /\ getNetworkRequests(w, networkCollector, flag)
                   = [err |-> "", data |-> EmittedOn(p, TRUE, 0)]
              /\ getConsoleData(w, consoleCollector, flag)
                   = [err |-> "", data |-> EmittedOn(p, FALSE, 0)]

\* Page 1 saw a request before any navigation, one after the first navigation
\* and one after the fourth: the first is evicted, the second is preserved at
\* the edge of the window, the third is current.
C5_Witness ==
  /\ Len(observed) = 3
  /\ \A i \in 1..3 : observed[i].page = 1 /\ IsRequest(observed[i])
  /\ observed[1].navigation = 0
  /\ observed[2].navigation = 1
  /\ observed[3].navigation = 4
  /\ navigations[1] = 4
  /\ getNetworkRequests(Selecting(0), networkCollector, <<TRUE>>).data
       = <<observed[2].resource, observed[3].resource>>
  /\ getNetworkRequests(Selecting(0), networkCollector, <<FALSE>>).data
       = <<observed[3].resource>>

\* The reverse lookup of an emitted resource in the collector that saw it.
StableIdOf(o) ==
  IF IsRequest(o) THEN getNetworkRequestStableId(networkCollector, o.resource)
  ELSE getConsoleMessageStableId(consoleCollector, o.resource)

\* Emitted no more than three navigations of its page ago.
Preserved(o) == navigations[o.page] - o.navigation <= PreservedNavigations

\* C6: within one collector the ids reported at observation are strictly
\* increasing in observation order over everything ever emitted, evicted
\* resources included, so no id is used twice; and the reverse lookup of a
\* resource still held keeps returning the id reported when it was observed,
\* whatever was emitted, navigated or retrieved in between.
C6_StableIds ==
  \A i \in 1..Len(observed) :
    /\ Preserved(observed[i]) =>
         StableIdOf(observed[i]) = [err |-> "", id |-> observed[i].id]
    /\ \A j \in (i + 1)..Len(observed) :
         IsRequest(observed[i]) = IsRequest(observed[j])
           => observed[i].id < observed[j].id

\* A request was evicted from page 1, a console message came between it and a
\* later request on page 2: the later request has id 2 although it is the third
\* object, and the message has id 1 in its own collector.
C6_Witness ==
  /\ Len(observed) = 3
  /\ IsRequest(observed[1]) /\ ~Preserved(observed[1]) /\ observed[1].id = 1
  /\ ~IsRequest(observed[2]) /\ observed[2].id = 1
  /\ IsRequest(observed[3]) /\ observed[3].page = 2 /\ observed[3].id = 2
  /\ StableIdOf(observed[3]).id = 2

\* ----------------------------------------------------------------- response
\* handle() has just returned the content of a list invocation.
Rendered(tool) ==
  lastCall.op = "handle" /\ lastCall.err = "" /\ requestParams.tool = tool

ResponseText == IF response = <<>> THEN <<>> ELSE response[1].text

HasLine(line) == \E i \in 1..Len(ResponseText) : ResponseText[i] = line

\* The item lines of the response, in order.
ItemLines == SelectSeq(ResponseText, LAMBDA line : line[1] \in {"reqid=", "msgid="})

\* The id the collector reported when the resource was observed.
ObservedId(resource) ==
  (CHOOSE o \in {observed[i] : i \in 1..Len(observed)} : o.resource = resource).id

RequestLine(request) ==
  <<"reqid=">> \o ToStr(ObservedId(request)) \o <<" ", request.type>>

MessageLine(message) ==
  <<"msgid=">> \o ToStr(ObservedId(message))
    \o <<" [", IF message.kind = "console" THEN message.type ELSE "error", "]">>

\* What the selected page emitted that the invocation asks for, before and
\* after the declared filter.
Listed(requests) ==
  EmittedOn(pages[selectedPageIdx + 1], requests,
            IF Truthy(requestParams.includePreserved) THEN PreservedNavigations ELSE 0)

NoFilter == requestParams.filter = <<>> \/ requestParams.filter = <<{}>>

MatchingRequests ==
  SelectSeq(Listed(TRUE),
            LAMBDA request : NoFilter \/ request.type \in requestParams.filter[1])

MatchingMessages ==
  SelectSeq(Listed(FALSE),
            LAMBDA message :
              \/ NoFilter
              \/ message.kind = "console" /\ message.type \in requestParams.filter[1]
              \/ message.kind = "pageerror" /\ "error" \in requestParams.filter[1])

\* The list an invocation of either list tool pages through.
PagedList ==
  IF requestParams.tool = "list_network_requests" THEN MatchingRequests
  ELSE MatchingMessages

PagedLines ==
  IF requestParams.tool = "list_network_requests"
  THEN SeqMap(RequestLine, MatchingRequests)
  ELSE SeqMap(MessageLine, MatchingMessages)

RenderedList == Rendered("list_network_requests") \/ Rendered("list_console_messages")

\* ceil(n / pageSize), at least 1; 1 when no page size is given
TotalPagesFor(n, pageSize) ==
  IF pageSize = <<>> \/ n = 0 THEN 1 ELSE (n + pageSize[1] - 1) \div pageSize[1]

RequestedPage == IF requestParams.pageIdx = <<>> THEN 0 ELSE requestParams.pageIdx[1]

OutOfRange == RequestedPage >= TotalPagesFor(Len(PagedList), requestParams.pageSize)

\* first and last position (1-based) of page k for page size pageSize
FirstOf(k, pageSize) == k * pageSize + 1

LastOf(k, pageSize, n) == Min(k * pageSize + pageSize, n)

RECURSIVE PagesFrom(_, _, _, _)
PagesFrom(data, pageSize, k, totalPages) ==
  IF k >= totalPages THEN <<>>
  ELSE dataWithPagination(data, <<[pageSize |-> <<pageSize>>, pageIdx |-> <<k>>]>>).items
         \o PagesFrom(data, pageSize, k + 1, totalPages)

Partitioned(data, pageSize) ==
  LET n == Len(data)
      totalPages == TotalPagesFor(n, <<pageSize>>)
  IN /\ \A k \in 0..(totalPages - 1) :
          LET page == dataWithPagination(data, <<[pageSize |-> <<pageSize>>, pageIdx |-> <<k>>]>>)
          IN /\ page.items = SubSeq(data, FirstOf(k, pageSize), LastOf(k, pageSize, n))
             /\ \E i \in 1..Len(page.info) :
                  page.info[i] = ShowingLine(FirstOf(k, pageSize), LastOf(k, pageSize, n),
                                             n, k + 1, totalPages)
     /\ PagesFrom(data, pageSize, 0, totalPages) = data

\* C7: for the requests and for the console messages the selected page emitted
\* (0 to MaxResources items) and every page size, the pages 0 .. totalPages-1
\* are the consecutive slices of the list, each announced with its own range,
\* and put one after the other they give the list back; a list invocation
\* with a page size and a page index inside the range shows exactly that slice.
C7_PaginationPartition ==
  /\ \A pageSize \in 1..(MaxPageSize + 1) :
       /\ Partitioned(EmittedOn(pages[selectedPageIdx + 1], TRUE, 0), pageSize)
       /\ Partitioned(EmittedOn(pages[selectedPageIdx + 1], FALSE, 0), pageSize)
  /\ (RenderedList /\ requestParams.pageSize # <<>> /\ ~OutOfRange) =>
       ItemLines = SubSeq(PagedLines,
                          FirstOf(RequestedPage, requestParams.pageSize[1]),
                          LastOf(RequestedPage, requestParams.pageSize[1], Len(PagedLines)))

\* Three requests listed with pageSize 2, pageIdx 1: the second page shows the
\* third request alone.
C7_Witness ==
  /\ Rendered("list_network_requests")
  /\ requestParams.pageSize = <<2>> /\ requestParams.pageIdx = <<1>>
  /\ NoFilter
  /\ Len(MatchingRequests) = 3
  /\ HasLine(ShowingLine(3, 3, 3, 2, 2))
  /\ ItemLines = <<RequestLine(MatchingRequests[3])>>

\* What C8 and its amendment say of a list invocation whose page index lies
\* outside [0, totalPages): the fallback line, the first page, page 1 announced.
FallsBackToFirstPage ==
  LET n == Len(PagedList)
      pageSize == IF requestParams.pageSize = <<>> THEN n ELSE requestParams.pageSize[1]
  IN /\ HasLine(InvalidPageLine)
     /\ HasLine(ShowingLine(1, LastOf(0, pageSize, n), n, 1,
                            TotalPagesFor(n, requestParams.pageSize)))
     /\ ItemLines = SubSeq(PagedLines, 1, LastOf(0, pageSize, n))

\* C8 as stated: for every list, a page index outside [0, totalPages) raises no
\* error and the rendered section carries the fallback line with the first
\* page; a page index inside the range carries no fallback line.
C8_FallbackForEveryList ==
  /\ (lastCall.op = "handle" /\ requestParams.tool # "close_page") => lastCall.err = ""
  /\ RenderedList =>
       IF OutOfRange THEN FallsBackToFirstPage ELSE ~HasLine(InvalidPageLine)

\* C8, amended: no list invocation raises an error; when at least one item
\* passes the filter, a page index outside [0, totalPages) renders the fallback
\* line and the first page, and one inside renders no fallback line; when no
\* item passes the filter the section is the "no items" line alone, whatever
\* the page index.
C8_FallbackForNonEmptyList ==
  /\ (lastCall.op = "handle" /\ requestParams.tool # "close_page") => lastCall.err = ""
  /\ RenderedList =>
       IF Len(PagedList) = 0
       THEN /\ ~HasLine(InvalidPageLine)
            /\ ItemLines = <<>>
            /\ HasLine(NoRequestsLine) \/ HasLine(NoConsoleMessagesLine)
       ELSE IF OutOfRange THEN FallsBackToFirstPage ELSE ~HasLine(InvalidPageLine)

\* pageSize 2, pageIdx 5 on three requests: the fallback line, the first two
\* requests, "Page 1 of 2".
C8_Witness ==
  /\ Rendered("list_network_requests")
  /\ requestParams.pageSize = <<2>> /\ requestParams.pageIdx = <<FarPageIdx>>
  /\ NoFilter
  /\ Len(MatchingRequests) = 3
  /\ HasLine(InvalidPageLine)
  /\ HasLine(ShowingLine(1, 2, 3, 1, 2))
  /\ ItemLines = <<RequestLine(MatchingRequests[1]), RequestLine(MatchingRequests[2])>>

\* C9: a list invocation that passes no pageSize shows every item that passes
\* the filter, as the single page 1 of 1, whether pageIdx is omitted, 0 or
\* positive.
C9_NoPageSizeShowsAll ==
  (RenderedList /\ requestParams.pageSize = <<>>) =>
     /\ ItemLines = PagedLines
     /\ Len(PagedList) > 0 =>
          HasLine(ShowingLine(1, Len(PagedList), Len(PagedList), 1, 1))

\* Three requests listed with no pageSize and pageIdx 1: all three are shown.
C9_Witness ==
  /\ Rendered("list_network_requests")
  /\ requestParams.pageSize = <<>> /\ requestParams.pageIdx = <<1>>
  /\ Len(MatchingRequests) = 3
  /\ Len(ItemLines) = 3
  /\ HasLine(ShowingLine(1, 3, 3, 1, 1))

\* The item lines among lines.
ItemsAmong(lines) == SelectSeq(lines, LAMBDA line : line[1] \in {"reqid=", "msgid="})

\* The network section the declared options would render for page index k.
NetworkSectionFor(k) ==
  networkRequestsSection(World, networkCollector,
    <<[networkRequestsOptions[1] EXCEPT
         !.pagination = <<[pageSize |-> requestParams.pageSize, pageIdx |-> <<k>>]>>]>>).lines

\* C10: a rendered list counts and pages the items that pass the declared
\* filter (page errors as 'error'; every item when the filter is omitted or
\* empty): the range line gives the post-filter total and page count, the items
\* shown are the requested slice of the post-filter list, and over the page
\* indices 0 .. totalPages-1 of a network list every matching request appears
\* and no other.
C10_FilterBeforePagination ==
  /\ RenderedList =>
       LET n == Len(PagedList)
           pageSize == IF requestParams.pageSize = <<>> THEN n ELSE requestParams.pageSize[1]
           k == IF OutOfRange THEN 0 ELSE RequestedPage
       IN IF n = 0 THEN ItemLines = <<>>
          ELSE /\ HasLine(ShowingLine(FirstOf(k, pageSize), LastOf(k, pageSize, n), n, k + 1,
                                      TotalPagesFor(n, requestParams.pageSize)))
               /\ ItemLines = SubSeq(PagedLines, FirstOf(k, pageSize), LastOf(k, pageSize, n))
  /\ (Rendered("list_network_requests") /\ requestParams.pageSize # <<>>) =>
       LET totalPages == TotalPagesFor(Len(MatchingRequests), requestParams.pageSize) IN
       /\ \A i \in 1..Len(MatchingRequests) :
            \E k \in 0..(totalPages - 1) :
              \E j \in 1..Len(NetworkSectionFor(k)) :
                NetworkSectionFor(k)[j] = RequestLine(MatchingRequests[i])
       /\ \A k \in 0..(totalPages - 1) :
            \A j \in 1..Len(ItemsAmong(NetworkSectionFor(k))) :
              \E i \in 1..Len(MatchingRequests) :
                ItemsAmong(NetworkSectionFor(k))[j] = RequestLine(MatchingRequests[i])

\* Requests of both types and the filter {"document"} with pageSize 1, and a
\* document request behind an image request: page 1 of the filtered list is
\* that document request, not the image.
C10_Witness ==
  /\ Rendered("list_network_requests")
  /\ requestParams.filter = <<{"document"}>>
  /\ requestParams.pageSize = <<1>> /\ requestParams.pageIdx = <<0>>
  /\ Len(Listed(TRUE)) = 3
  /\ Listed(TRUE)[1].type = "image"
  /\ Listed(TRUE)[2].type = "document"
  /\ Listed(TRUE)[3].type = "document"
  /\ ItemLines = <<RequestLine(Listed(TRUE)[2])>>
  /\ HasLine(ShowingLine(1, 1, 2, 1, 2))

\* ------------------------------------------------------------ render order
\* the rank of a line that opens a section, 0 for every other line
SectionRank(line) ==
  CASE line = <<"## Network emulation">> -> 1
    [] line = <<"## CPU emulation">> -> 2
    [] line = <<"# Open dialog">> -> 3
    [] line = <<"## Pages">> -> 4
    [] line = <<"## Page content">> -> 5
    [] line[1] = "## Request " -> 6
    [] line[1] = "ID: " -> 7
    [] line = NetworkRequestsHeader -> 8
    [] line = ConsoleMessagesHeader -> 9
    [] OTHER -> 0

\* the ranks of the section openers of a text, in the order they appear
SectionRanks(text) ==
  SelectSeq([i \in 1..Len(text) |-> SectionRank(text[i])], LAMBDA rank : rank > 0)

LineAfter(text, line) ==
  LET i == CHOOSE i \in 1..Len(text) : text[i] = line
  IN text[i + 1]

SelectedPage == pages[selectedPageIdx + 1]

\* C11: the content handle() returns is one text item followed by the
\* attached images in attach order; the text starts with the title and the
\* free-text lines in append order, and its sections follow in the order
\* network emulation, CPU emulation, open dialog, pages, page content (the
\* snapshot or the file confirmation), attached request, attached console
\* message, network list, console list.
C11_RenderOrder ==
  Rendered("tool") =>
    LET text == response[1].text
        ranks == SectionRanks(text)
        present == {ranks[i] : i \in 1..Len(ranks)}
    IN
    /\ Len(response) = 1 + Len(images)
    /\ response[1].type = "text"
    /\ \A i \in 1..Len(images) :
         response[1 + i].type = "image" /\ response[1 + i].data = images[i]
    /\ text[1] = <<"# ", "tool", " response">>
    /\ \A i \in 1..Len(textResponseLines) : text[1 + i] = textResponseLines[i]
    /\ \A i \in 1..(1 + Len(textResponseLines)) : SectionRank(text[i]) = 0
    /\ \A i \in 1..(Len(ranks) - 1) : ranks[i] < ranks[i + 1]
    /\ 1 \in present <=> networkConditionsMap[SelectedPage] # <<>>
    /\ 2 \in present <=>
         (cpuThrottlingRateMap[SelectedPage] # <<>> /\ cpuThrottlingRateMap[SelectedPage][1] > 1)
    /\ 3 \in present <=> dialog # <<>>
    /\ 4 \in present <=> includePages
    /\ 5 \in present <=> (snapshotParams # <<>> /\ textSnapshot # <<>>)
    /\ (5 \in present /\ snapshotParams[1].filePath # <<>>) =>
         LineAfter(text, <<"## Page content">>)
           = <<"Saved snapshot to ">> \o snapshotParams[1].filePath \o <<".">>
    /\ (5 \in present /\ snapshotParams[1].filePath = <<>>) =>
         LineAfter(text, <<"## Page content">>)[1] = "uid="
    /\ 6 \in present <=> attachedNetworkRequestId # <<>>
    /\ 7 \in present <=> attachedConsoleMessageId # <<>>
    /\ 8 \in present <=> networkRequestsOptions # <<>>
    /\ 9 \in present <=> consoleDataOptions # <<>>

\* A response with free-text lines, both emulation banners, the dialog
\* banner, the page list, an inline snapshot, both attached details, both
\* lists and two images has been rendered.
C11_Witness ==
  /\ Rendered("tool")
  /\ Len(SectionRanks(ResponseText)) = 9
  /\ Len(textResponseLines) = 2
  /\ Len(response) = 3
  /\ snapshotParams[1].filePath = <<>>

\* ---------------------------------------------------- declare, then gather
\* the sections a declaration asks for, by rank
DeclaredSections(r) ==
  (IF r.includePages THEN {4} ELSE {})
    \cup (IF r.snapshotParams # <<>> /\ textSnapshot # <<>> THEN {5} ELSE {})
    \cup (IF r.attachedNetworkRequestId # <<>> THEN {6} ELSE {})
    \cup (IF r.attachedConsoleMessageId # <<>> THEN {7} ELSE {})
    \cup (IF r.networkRequestsOptions # <<>> THEN {8} ELSE {})
    \cup (IF r.consoleDataOptions # <<>> THEN {9} ELSE {})

\* the declared sections the rendered text holds, by rank
RenderedSections ==
  LET ranks == SectionRanks(ResponseText)
  IN {ranks[i] : i \in 1..Len(ranks)} \cap 4..9

\* C12: once handle() has been called on a response, no declare operation
\* changes which sections are rendered: the text handle() returns holds the
\* sections that were declared when it was called.
C12_DeclarationsFrozenByHandle ==
  (phase = "done" /\ gathered.called # <<>>) =>
    RenderedSections = DeclaredSections(gathered.called[1])

\* handle() ran await by await with no declare call in between and returned.
UninterruptedHandleKeepsDeclaration ==
  (phase = "done" /\ gathered.called # <<>> /\ ~gathered.late) =>
    RenderedSections = DeclaredSections(gathered.called[1])

\* ------------------------------------------------------- element by uid
\* the nodes of a tree, as the set of [uid, dom] pairs
RECURSIVE NodesOf(_)
NodesOf(node) ==
  {[uid |-> node.id, dom |-> node.dom]}
    \cup UNION {NodesOf(node.children[i]) : i \in 1..Len(node.children)}

\* the snapshot-id component of a uid: what precedes its first "_"
SnapshotIdOf(uid) ==
  IF \E k \in 1..(MaxSnapshots + 1), i \in UidIndexArgs : uid = MakeUid(k, i)
  THEN ToStr(CHOOSE k \in 1..(MaxSnapshots + 1) : \E i \in UidIndexArgs : uid = MakeUid(k, i))
  ELSE uid

\* the error the precedence of C13 asks for, "" when the handle is returned
ExpectedUidError(uid) ==
  IF textSnapshot = <<>> THEN NoSnapshotError
  ELSE IF SnapshotIdOf(uid) # textSnapshot[1].snapshotId THEN StaleUidError
  ELSE IF \A n \in NodesOf(textSnapshot[1].root) : n.uid # uid THEN NoSuchElementError
  ELSE IF \E n \in NodesOf(textSnapshot[1].root) : n.uid = uid /\ n.dom \notin attached
  THEN NoSuchElementError
  ELSE ""

\* C13: getElementByUid fails with 'No snapshot found' when no snapshot was
\* captured; otherwise with the stale-snapshot error when the uid's snapshot
\* id is not the current one; otherwise with 'No such element' when the uid
\* is not in the uid map; otherwise with 'No such element' when the element
\* handle cannot be resolved; it returns the handle only when none applies.
C13_UidLookupPrecedence ==
  lastCall.op = "getElementByUid" => lastCall.err = ExpectedUidError(lastCall.arg)

\* A uid of an earlier snapshot whose index the current snapshot does not
\* reach, and whose node is detached, is rejected as stale.
C13_Witness ==
  /\ lastCall.op = "getElementByUid"
  /\ lastCall.err = StaleUidError
  /\ textSnapshot # <<>>
  /\ textSnapshot[1].snapshotId = <<"2">>
  /\ lastCall.arg = MakeUid(1, 2)
  /\ \A n \in NodesOf(textSnapshot[1].root) : n.uid # MakeUid(2, 2)
  /\ attached # DomIds

\* ---------------------------------------------------------- uid assignment
\* the nodes of a tree in preorder: a node, then the subtrees of its
\* children from left to right
RECURSIVE Preorder(_)
Preorder(node) ==
  LET rest[i \in 0..Len(node.children)] ==
        IF i = 0 THEN <<>> ELSE rest[i - 1] \o Preorder(node.children[i])
  IN <<node>> \o rest[Len(node.children)]

\* C14: in a captured snapshot the i-th node in preorder (the root is node
\* 0, a parent precedes its descendants, siblings go left to right) has the
\* uid '<snapshotId>_<i>'; the uids are distinct and the uid map has exactly
\* one entry per node, the node of that uid.
C14_PreorderUids ==
  textSnapshot # <<>> =>
    LET snapshot == textSnapshot[1]
        nodes == Preorder(snapshot.root)
    IN /\ \A i \in 1..Len(nodes) :
            /\ nodes[i].id = snapshot.snapshotId \o <<"_">> \o ToStr(i - 1)
            /\ nodes[i].id \in DOMAIN snapshot.idToNode
            /\ snapshot.idToNode[nodes[i].id] = nodes[i]
       /\ \A i, j \in 1..Len(nodes) : i # j => nodes[i].id # nodes[j].id
       /\ Cardinality(DOMAIN snapshot.idToNode) = Len(nodes)

\* The second snapshot is of a tree whose first child has a child of its
\* own and a right sibling: the grandchild is numbered before the sibling.
C14_Witness ==
  /\ textSnapshot # <<>>
  /\ textSnapshot[1].snapshotId = <<"2">>
  /\ Len(textSnapshot[1].root.children) = 2
  /\ Len(textSnapshot[1].root.children[1].children) = 1
  /\ textSnapshot[1].root.children[1].children[1].id = <<"2", "_", "2">>
  /\ textSnapshot[1].root.children[2].id = <<"2", "_", "3">>

\* --------------------------------------------------------------- page tools
NavigationErrors == NavigationOutcomes \ {""}

\* the navigate_page line that reports a failed navigation
ReportsFailure(line) == Len(line) = 3 /\ line[2] \in NavigationErrors

\* C15: a tool invocation that navigates (navigate_page of any type,
\* new_page) and whose navigation fails or times out leaves the selected
\* page index as it was before the invocation.
C15_FailedNavigationKeepsSelection ==
  [][((lastCall'.op = "new_page" /\ lastCall'.err \in NavigationErrors)
      \/ (/\ lastCall'.op = "navigate_page"
          /\ lastCall'.err = ""
          /\ ReportsFailure(textResponseLines'[1])))
     => selectedPageIdx' = selectedPageIdx]_vars

\* the part of C15 about navigate_page
FailedNavigatePageKeepsSelection ==
  [][(/\ lastCall'.op = "navigate_page"
      /\ lastCall'.err = ""
      /\ ReportsFailure(textResponseLines'[1]))
     => selectedPageIdx' = selectedPageIdx]_vars

UnablePrefixes ==
  {"Unable to navigate in the  selected page: ",
   "Unable to navigate back in the selected page: ",
   "Unable to navigate forward in the selected page: ",
   "Unable to reload the selected page: "}

SuccessPrefixes ==
  {"Successfully navigated to ", "Successfully navigated back to ",
   "Successfully navigated forward to ", "Successfully reloaded the page."}

\* the navigate_page handler has just run and its navigation failed
NavigationFailed == lastCall.op = "navigate_page" /\ lastCall.arg = 1

\* C16: when the navigation of navigate_page (type url with a URL, back,
\* forward or reload) fails, the handler completes normally and the response
\* holds an 'Unable to ...' line with the error message, no 'Successfully
\* ...' line, and the page list; the rendered text has that line and the
\* '## Pages' section.
C16_NavigationFailureReported ==
  /\ NavigationFailed =>
       /\ lastCall.err = ""
       /\ phase = "declared"
       /\ includePages
       /\ \E i \in 1..Len(textResponseLines) :
            /\ textResponseLines[i][1] \in UnablePrefixes
            /\ textResponseLines[i][2] \in NavigationErrors
       /\ \A i \in 1..Len(textResponseLines) :
            textResponseLines[i][1] \notin SuccessPrefixes
  /\ (/\ Rendered("navigate_page")
      /\ \E i \in 1..Len(textResponseLines) : ReportsFailure(textResponseLines[i])) =>
       /\ \A i \in 1..Len(textResponseLines) : ResponseText[1 + i] = textResponseLines[i]
       /\ \A i \in 1..Len(ResponseText) : ResponseText[i][1] \notin SuccessPrefixes
       /\ HasLine(<<"## Pages">>)

\* A failed 'back' navigation has been rendered: the text holds the 'Unable
\* to navigate back' line with the timeout message, and the page list.
C16_Witness ==
  /\ Rendered("navigate_page")
  /\ HasLine(<<"Unable to navigate back in the selected page: ",
               "Navigation timeout exceeded", ".">>)
  /\ HasLine(<<"## Pages">>)

\* handle_dialog is invoked while no dialog is open
HandleDialogWithoutDialog == lastCall'.op = "handle_dialog" /\ dialog = <<>>

\* close_page is invoked on the only page that is still open
ClosePageOnLastPage ==
  /\ lastCall'.op = "close_page"
  /\ Len(browserPages) = 1
  /\ lastCall'.arg < Len(pages)
  /\ pages[lastCall'.arg + 1] = browserPages[1]

\* the handler completed and the response holds the explanation
CompletesWith(explanation) ==
  /\ lastCall'.err = ""
  /\ phase' = "declared"
  /\ \E i \in 1..Len(textResponseLines') : textResponseLines'[i] = <<explanation>>

\* C17: handle_dialog invoked while no dialog is open, and close_page
\* invoked on the last page, both complete with a response that contains
\* the explanation instead of aborting the invocation.
C17_InvalidStateExplained ==
  [][/\ HandleDialogWithoutDialog => CompletesWith(NoOpenDialogError)
     /\ ClosePageOnLastPage => CompletesWith(CLOSE_PAGE_ERROR)]_vars

\* the two parts of C17, one at a time
NoDialogExplained ==
  [][HandleDialogWithoutDialog => CompletesWith(NoOpenDialogError)]_vars

LastPageExplained ==
  [][ClosePageOnLastPage => CompletesWith(CLOSE_PAGE_ERROR)]_vars

\* close_page on the last page when the page list is current
LastPageExplainedWhenListCurrent ==
  [][(ClosePageOnLastPage /\ pages = browserPages) => CompletesWith(CLOSE_PAGE_ERROR)]_vars

\* ------------------------------------------------------------------ timeouts
\* ten times the network multiplier of a condition label
TenTimesMultiplier(label) ==
  CASE label = <<"Fast 4G">> -> 10
    [] label = <<"Slow 4G">> -> 25
    [] label = <<"Fast 3G">> -> 50
    [] label = <<"Slow 3G">> -> 100
    [] OTHER -> 10

HasSelectedPage == selectedPageIdx < Len(pages) /\ InSeq(SelectedPage, browserPages)

\* C18: the selected page's default timeout is 5000 ms times its CPU
\* throttling rate (1 when unset), and its default navigation timeout is
\* 10000 ms times the network multiplier of its condition label (Fast 4G 1,
\* Slow 4G 2.5, Fast 3G 5, Slow 3G 10, unset or unrecognized 1).
C18_TimeoutDerivation ==
  HasSelectedPage =>
    /\ defaultTimeout[SelectedPage]
         = 5000 * (IF cpuThrottlingRateMap[SelectedPage] = <<>> THEN 1
                   ELSE cpuThrottlingRateMap[SelectedPage][1])
    /\ 10 * defaultNavigationTimeout[SelectedPage]
         = 10000 * TenTimesMultiplier(networkConditionsMap[SelectedPage])

\* The second page is selected, throttled four times and on Slow 4G: its
\* timeouts are 20000 ms and 25000 ms, after the first page got settings of
\* its own.
C18_Witness ==
  /\ HasSelectedPage
  /\ selectedPageIdx = 1
  /\ cpuThrottlingRateMap[SelectedPage] = <<4>>
  /\ networkConditionsMap[SelectedPage] = <<"Slow 4G">>
  /\ defaultTimeout[SelectedPage] = 20000
  /\ defaultNavigationTimeout[SelectedPage] = 25000
  /\ networkConditionsMap[pages[1]] = <<"Slow 3G">>
  /\ lastCall.op = "setCpuThrottlingRate"

\* ---------------------------------------------------------- lookup by id
\* ids a caller may ask for: none assigned yet, assigned, beyond the last
IdArgs == 0..(MaxResources + 1)

\* what C19 asks of the lookup of id on page p: the emitted resource that
\* got this id on this page and is still retained, else not found
ExpectedById(p, requests, id) ==
  LET hits == SelectSeq(observed,
                LAMBDA o : /\ IsRequest(o) = requests
                           /\ o.id = id
                           /\ o.page = p
                           /\ Preserved(o))
  IN IF hits = <<>> THEN [err |-> NotFoundError, resource |-> <<>>]
     ELSE [err |-> "", resource |-> <<hits[1].resource>>]

\* C19: for every open page, selected in turn, the lookup by id returns the
\* resource that was given this id when it is retained for that page, and
\* fails with the not-found error when the id was evicted, belongs to a
\* resource of another page, or was never assigned; it never returns a
\* resource of another page or with another id.
C19_LookupById ==
  \A i \in 1..Len(pages) :
    InSeq(pages[i], browserPages) =>
      \A id \in IdArgs :
        /\ getNetworkRequestById(Selecting(i - 1), networkCollector, id)
             = ExpectedById(pages[i], TRUE, id)
        /\ getConsoleMessageById(Selecting(i - 1), consoleCollector, id)
             = ExpectedById(pages[i], FALSE, id)

\* Request 1 was evicted from page 1, request 2 was observed on page 2 and
\* request 3 on page 1 after its fourth navigation: with page 1 selected
\* only id 3 is found, with page 2 selected only id 2.
C19_Witness ==
  /\ Len(observed) = 3
  /\ \A i \in 1..3 : IsRequest(observed[i]) /\ observed[i].id = i
  /\ observed[1].page = 1 /\ observed[1].navigation = 0
  /\ observed[2].page = 2
  /\ observed[3].page = 1 /\ observed[3].navigation = 4
  /\ navigations[1] = 4
  /\ Len(pages) = 2
  /\ getNetworkRequestById(Selecting(0), networkCollector, 1).err = NotFoundError
  /\ getNetworkRequestById(Selecting(0), networkCollector, 2).err = NotFoundError
  /\ getNetworkRequestById(Selecting(0), networkCollector, 3).resource
       = <<observed[3].resource>>
  /\ getNetworkRequestById(Selecting(1), networkCollector, 2).resource
       = <<observed[2].resource>>
  /\ getNetworkRequestById(Selecting(1), networkCollector, 3).err = NotFoundError

\* ------------------------------------------------------- retrieval order
\* the ids of retrieved requests / messages, in the order retrieved
RequestIds(data) ==
  [i \in 1..Len(data) |-> getNetworkRequestStableId(networkCollector, data[i]).id]

MessageIds(data) ==
  [i \in 1..Len(data) |-> getConsoleMessageStableId(consoleCollector, data[i]).id]

Ascending(ids) == \A i \in 1..(Len(ids) - 1) : ids[i] < ids[i + 1]

\* C20: for every open page, selected in turn, and for includePreserved
\* true, false and undefined, the retrieval returns its resources in
\* ascending order of stable id, across the navigations retained.
C20_AscendingIds ==
  \A i \in 1..Len(pages) :
    InSeq(pages[i], browserPages) =>
      \A flag \in {<<>>, <<FALSE>>, <<TRUE>>} :
        /\ Ascending(RequestIds(
             getNetworkRequests(Selecting(i - 1), networkCollector, flag).data))
        /\ Ascending(MessageIds(
             getConsoleData(Selecting(i - 1), consoleCollector, flag).data))

\* Page 1 emitted three console messages, one before its first navigation,
\* one after it and one after the second: the preserved retrieval returns
\* ids 1, 2, 3 over three navigation epochs.
C20_Witness ==
  /\ Len(observed) = 3
  /\ \A i \in 1..3 : ~IsRequest(observed[i]) /\ observed[i].page = 1
  /\ observed[1].navigation = 0
  /\ observed[2].navigation = 1
  /\ observed[3].navigation = 2
  /\ MessageIds(getConsoleData(Selecting(0), consoleCollector, <<TRUE>>).data) = <<1, 2, 3>>
  /\ MessageIds(getConsoleData(Selecting(0), consoleCollector, <<>>).data) = <<3>>

\* ------------------------------------------------------ snapshot replacement
\* a snapshot is complete: its uid map holds exactly the nodes of its tree,
\* the root among them, each under its own uid, and every key starts with the
\* snapshot's id and "_"
CompleteSnapshot(snapshot) ==
  LET nodes == Preorder(snapshot.root) IN
  /\ snapshot.root.id \in DOMAIN snapshot.idToNode
  /\ \A uid \in DOMAIN snapshot.idToNode :
       /\ Len(uid) > Len(snapshot.snapshotId) + 1
       /\ SubSeq(uid, 1, Len(snapshot.snapshotId) + 1) = snapshot.snapshotId \o <<"_">>
       /\ \E i \in 1..Len(nodes) : nodes[i].id = uid /\ snapshot.idToNode[uid] = nodes[i]
  /\ \A i \in 1..Len(nodes) : nodes[i].id \in DOMAIN snapshot.idToNode

\* the createTextSnapshot() call whose capture has just settled
SettledCall == captures'[lastCall'.arg]

\* C21: in every state, also while captures are pending, the current snapshot
\* is complete (every key of its uid map has the snapshot's id as prefix, its
\* root and every other node are in the map) and carries the largest
\* snapshot id handed out. A call that starts a capture leaves the snapshot
\* alone; a capture that settles with a tree replaces the snapshot by the
\* new one, whose id is larger than the replaced one's, whichever call
\* started first; one that settles with null leaves the previous snapshot.
C21_WholesaleReplacement ==
  /\ [](textSnapshot # <<>> =>
          /\ CompleteSnapshot(textSnapshot[1])
          /\ textSnapshot[1].snapshotId = ToStr(nextSnapshotId - 1))
  /\ [][/\ lastCall'.op = "createTextSnapshot call" =>
             textSnapshot' = textSnapshot /\ nextSnapshotId' = nextSnapshotId
        /\ (lastCall'.op = "createTextSnapshot return" /\ SettledCall = "null") =>
             textSnapshot' = textSnapshot /\ nextSnapshotId' = nextSnapshotId
        /\ (lastCall'.op = "createTextSnapshot return" /\ SettledCall = "tree") =>
             /\ textSnapshot' # textSnapshot
             /\ textSnapshot'[1].snapshotId = ToStr(nextSnapshotId)
             /\ nextSnapshotId' = nextSnapshotId + 1
        /\ textSnapshot' # textSnapshot => lastCall'.op = "createTextSnapshot return"]_vars

\* Two calls overlapped and the capture of the second settled first: the
\* snapshot of the first call is in place and has the larger id, 2.
C21_Witness ==
  /\ lastCall.op = "createTextSnapshot return"
  /\ lastCall.arg = 1
  /\ captures = <<"tree", "tree">>
  /\ textSnapshot # <<>>
  /\ textSnapshot[1].snapshotId = <<"2">>

\* ------------------------------------------------------------ declare phase
DeclareOps ==
  {"setIncludePages", "includeSnapshot", "setIncludeNetworkRequests",
   "setIncludeConsoleData", "attachNetworkRequest", "attachConsoleMessage",
   "appendResponseLine", "attachImage"}

\* the directives of the response, one per declare method
Directives ==
  [setIncludePages |-> includePages, includeSnapshot |-> snapshotParams,
   setIncludeNetworkRequests |-> networkRequestsOptions,
   setIncludeConsoleData |-> consoleDataOptions,
   attachNetworkRequest |-> attachedNetworkRequestId,
   attachConsoleMessage |-> attachedConsoleMessageId,
   appendResponseLine |-> textResponseLines, attachImage |-> images]

\* q is p with one element appended
Appended(p, q) == Len(q) = Len(p) + 1 /\ SubSeq(q, 1, Len(p)) = p

\* C22: a declare operation changes only its own directive of the response
\* (appendResponseLine and attachImage append to theirs, keeping what was
\* there); the other directives, the session state (browser pages, page
\* list, selected page, dialog and its listeners, throttling settings,
\* timeouts), the snapshot and the collectors are as before, and nothing is
\* rendered.
C22_DeclareIsPureAccumulation ==
  [][lastCall'.op \in DeclareOps =>
       /\ UNCHANGED <<sessionVars, snapshotVars, collectorVars, response, gathered>>
       /\ \A op \in DeclareOps \ {lastCall'.op} : Directives'[op] = Directives[op]
       /\ lastCall'.op = "appendResponseLine" => Appended(textResponseLines, textResponseLines')
       /\ lastCall'.op = "attachImage" => Appended(images, images')]_vars

\* While a dialog is open on the selected page, a handler that already
\* declared the page list, a snapshot, both lists, both attachments, a line
\* and an image has appended a second line.
C22_Witness ==
  /\ lastCall.op = "appendResponseLine"
  /\ textResponseLines = << <<"first">>, <<"second">> >>
  /\ includePages
  /\ snapshotParams # <<>>
  /\ networkRequestsOptions # <<>> /\ consoleDataOptions # <<>>
  /\ attachedNetworkRequestId = <<1>> /\ attachedConsoleMessageId = <<2>>
  /\ images = <<"png one">>
  /\ dialog # <<>>
  /\ Len(pages) = 2

\* ------------------------------------------------------ pagination metadata
\* ceil(n / d) for n >= 0 and d > 0: the least t with t * d >= n
CeilingOf(n, d) == CHOOSE t \in 0..n : t * d >= n /\ (t = 0 \/ (t - 1) * d < n)

\* what C23 asks of the pagination of n items with page size pageSize and
\* page index pageIdx
ExpectedMetadata(n, pageSize, pageIdx) ==
  LET totalPages == IF n = 0 THEN 1 ELSE CeilingOf(n, pageSize)
      asked == IF pageIdx = <<>> THEN 0 ELSE pageIdx[1]
      c == IF asked < totalPages THEN asked ELSE 0
  IN [currentPage |-> c,
      totalPages |-> totalPages,
      hasNextPage |-> c < totalPages - 1,
      hasPreviousPage |-> c > 0,
      startIndex |-> c * pageSize,
      endIndex |-> IF n < c * pageSize + pageSize THEN n ELSE c * pageSize + pageSize]

HasLineStarting(lines, prefix) == \E i \in 1..Len(lines) : lines[i][1] = prefix

\* the pagination of data agrees with ExpectedMetadata, in its result and in
\* the info lines announcing it
MetadataAsExpected(data, pageSize, pageIdx) ==
  LET options == <<[pageSize |-> <<pageSize>>, pageIdx |-> pageIdx]>>
      result == paginate(data, options)
      info == paginationInfo(data, options, result)
      e == ExpectedMetadata(Len(data), pageSize, pageIdx)
  IN /\ result.currentPage = e.currentPage
     /\ result.totalPages = e.totalPages
     /\ result.hasNextPage = e.hasNextPage
     /\ result.hasPreviousPage = e.hasPreviousPage
     /\ result.startIndex = e.startIndex
     /\ result.endIndex = e.endIndex
     /\ \E i \in 1..Len(info) :
          info[i] = ShowingLine(e.startIndex + 1, e.endIndex, Len(data),
                                e.currentPage + 1, e.totalPages)
     /\ HasLineStarting(info, "Next page: ") <=> e.hasNextPage
     /\ HasLineStarting(info, "Previous page: ") <=> e.hasPreviousPage

\* C23: for the requests and for the console messages the selected page
\* has emitted when the session starts (0 to MaxResources items; nothing is
\* emitted later), every page size and the page indices
\* none, 0, 1, 2 and FarPageIdx,
\* totalPages is ceil(n / pageSize), 1 when n = 0; for the resolved page c,
\* hasNextPage is c < totalPages - 1, hasPreviousPage is c > 0, startIndex is
\* c * pageSize and endIndex is min(n, startIndex + pageSize); the info
\* lines show the range startIndex+1 to endIndex, and a next / previous page
\* line exactly when there is one. A rendered list with a page size carries
\* that range line and those page lines.
C23_PaginationMetadata ==
  /\ lastCall.op = "init" =>
       LET requests == EmittedOn(pages[selectedPageIdx + 1], TRUE, 0)
           messages == EmittedOn(pages[selectedPageIdx + 1], FALSE, 0)
       IN \A pageSize \in 1..(MaxPageSize + 1), pageIdx \in PageIdxOptions \cup {<<2>>} :
            /\ MetadataAsExpected(requests, pageSize, pageIdx)
            /\ MetadataAsExpected(messages, pageSize, pageIdx)
  /\ (RenderedList /\ requestParams.pageSize # <<>>) =>
       LET n == Len(PagedList)
           text == ResponseText
           e == ExpectedMetadata(n, requestParams.pageSize[1], requestParams.pageIdx)
       IN n > 0 =>
            /\ \E i \in 1..Len(text) :
                 text[i] = ShowingLine(e.startIndex + 1, e.endIndex, n,
                                       e.currentPage + 1, e.totalPages)
            /\ HasLineStarting(text, "Next page: ") <=> e.hasNextPage
            /\ HasLineStarting(text, "Previous page: ") <=> e.hasPreviousPage

\* Three requests listed with pageSize 1, pageIdx 1: page 2 of 3 shows the
\* range 2-2 and has both a next and a previous page.
C23_Witness ==
  /\ Rendered("list_network_requests")
  /\ requestParams.pageSize = <<1>> /\ requestParams.pageIdx = <<1>>
  /\ NoFilter
  /\ Len(MatchingRequests) = 3
  /\ HasLine(ShowingLine(2, 2, 3, 2, 3))
  /\ HasLine(NextPageLine(2))
  /\ HasLine(PreviousPageLine(0))

\* ------------------------------------------------------------ option values
\* role, name and DOM node of the nodes of a tree, in preorder
ShapeOf(root) ==
  LET nodes == Preorder(root)
  IN [i \in 1..Len(nodes) |->
        [dom |-> nodes[i].dom, role |-> nodes[i].role, name |-> nodes[i].name]]

\* the raw tree the current snapshot was built from
RawTreeOf(snapshot) == CHOOSE t \in RawTrees : ShapeOf(t) = ShapeOf(snapshot.root)

\* C24: in a snapshot, a node with role 'option' whose raw value is empty
\* has its name as value; an option node whose raw value is not empty keeps
\* that value; a node of any other role keeps its raw value.
C24_OptionBackfill ==
  textSnapshot # <<>> =>
    LET nodes == Preorder(textSnapshot[1].root)
        raw == Preorder(RawTreeOf(textSnapshot[1]))
    IN \A i \in 1..Len(nodes) :
         nodes[i].value =
           IF raw[i].role = "option" /\ raw[i].value = "" THEN raw[i].name
           ELSE raw[i].value

\* what assignIds does: an option node with a name has the name as value,
\* whatever its raw value was; every other node keeps its raw value
OptionValueIsItsName ==
  textSnapshot # <<>> =>
    LET nodes == Preorder(textSnapshot[1].root)
        raw == Preorder(RawTreeOf(textSnapshot[1]))
    IN \A i \in 1..Len(nodes) :
         nodes[i].value =
           IF raw[i].role = "option" /\ raw[i].name # "" THEN raw[i].name
           ELSE raw[i].value

\* ------------------------------------------------------- dialog of the page
\* C25: the dialog getDialog() returns, and the open-dialog banner of a
\* rendered response, belong to a dialog opened on the currently selected
\* page: once another page is selected, a dialog captured on the previous
\* page is not reported.
C25_DialogOfSelectedPage ==
  /\ dialog # <<>> => dialog[1].page \in SelectedPages
  /\ (lastCall.op = "handle" /\ lastCall.err = "" /\ HasLine(<<"# Open dialog">>)) =>
       dialog # <<>> /\ dialog[1].page \in SelectedPages

\* the lines of a text after its line `header`, up to the next line that
\* opens a section
SectionAfter(text, header) ==
  LET i == CHOOSE i \in 1..Len(text) : text[i] = header
      later == {j \in (i + 1)..Len(text) : SectionRank(text[j]) > 0}
      end == IF later = {} THEN Len(text) + 1
             ELSE CHOOSE j \in later : \A k \in later : j <= k
  IN SubSeq(text, i + 1, end - 1)

\* how many resources of a kind were observed on the selected page with a
\* type the filter lets through
PostFilterCount(kind, filter) ==
  Cardinality({i \in 1..Len(observed) :
    /\ observed[i].resource.kind = kind
    /\ observed[i].page = SelectedPage
    /\ (filter = <<>> \/ filter[1] = {} \/ observed[i].resource.type \in filter[1])})

\* a list section: the fallback line alone when nothing passes the filter,
\* else a pagination line and item lines, without the fallback line
ListSectionFor(section, count, fallback) ==
  IF count = 0 THEN section = <<fallback>>
  ELSE /\ HasLineStarting(section, "Showing ")
       /\ \E i \in 1..Len(section) : section[i][1] \in {"reqid=", "msgid="}
       /\ \A i \in 1..Len(section) : section[i] # fallback

HasDefaultValue(text) ==
  \E i \in 1..Len(text) : \E k \in 1..Len(text[i]) : text[i][k] = " (default value: \""

\* C26: the rendered text holds the network emulation banner exactly when the
\* selected page has a network condition, and setNetworkConditions(null)
\* takes the condition away; the CPU emulation banner exactly when the
\* selected page's rate is above 1; the open-dialog banner exactly when a
\* dialog is held, with a default value exactly for a prompt; the page list
\* exactly when requested; each list section exactly when requested, made of
\* the 'no items' line alone, without a pagination line, when nothing passes
\* its filter.
C26_ConditionalSections ==
  /\ [](Rendered("tool") =>
         LET text == ResponseText IN
         /\ HasLine(<<"## Network emulation">>) <=> networkConditionsMap[SelectedPage] # <<>>
         /\ HasLine(<<"## CPU emulation">>) <=>
              (cpuThrottlingRateMap[SelectedPage] # <<>>
               /\ cpuThrottlingRateMap[SelectedPage][1] > 1)
         /\ HasLine(<<"# Open dialog">>) <=> dialog # <<>>
         /\ HasDefaultValue(text) <=> (dialog # <<>> /\ dialog[1].type = "prompt")
         /\ HasLine(<<"## Pages">>) <=> includePages
         /\ HasLine(NetworkRequestsHeader) <=> networkRequestsOptions # <<>>
         /\ networkRequestsOptions # <<>> =>
              ListSectionFor(SectionAfter(text, NetworkRequestsHeader),
                             PostFilterCount("request", networkRequestsOptions[1].resourceTypes),
                             NoRequestsLine)
         /\ HasLine(ConsoleMessagesHeader) <=> consoleDataOptions # <<>>
         /\ consoleDataOptions # <<>> =>
              ListSectionFor(SectionAfter(text, ConsoleMessagesHeader),
                             PostFilterCount("console", consoleDataOptions[1].types),
                             NoConsoleMessagesLine))
  /\ [][(lastCall'.op = "setNetworkConditions" /\ lastCall'.arg = <<>> /\ lastCall'.err = "")
          => networkConditionsMap'[SelectedPage] = <<>>]_vars

\* a prompt is open, the network is not emulated and the CPU is throttled
\* when a response with the page list, an empty network list
\* and a non-empty console list is rendered
C26_Witness ==
  /\ Rendered("tool")
  /\ dialog # <<>> /\ dialog[1].type = "prompt"
  /\ networkConditionsMap[SelectedPage] = <<>>
  /\ HasLine(<<"## CPU emulation">>)
  /\ includePages
  /\ HasLine(NoRequestsLine)
  /\ consoleDataOptions # <<>> /\ ~HasLine(NoConsoleMessagesLine)

\* C27: handle() refreshes the page list when the page list was declared and
\* leaves it as it is otherwise; when no snapshot was declared it leaves the
\* current snapshot and the next snapshot id as they are, and every uid
\* resolves after it as it did before.
C27_GatherOnlyDeclared ==
  [][lastCall'.op = "handle" =>
       /\ includePages => pages' = createPagesSnapshot(World).pages
       /\ ~includePages => pages' = pages
       /\ snapshotParams = <<>> =>
            /\ textSnapshot' = textSnapshot
            /\ nextSnapshotId' = nextSnapshotId
            /\ \A uid \in UidArgs :
                 getElementByUid(textSnapshot', attached', uid)
                   = getElementByUid(textSnapshot, attached, uid)
       /\ textSnapshot' # textSnapshot => snapshotParams # <<>>]_vars

\* a response that declared neither the page list nor a snapshot was
\* rendered while the page list was out of date and a snapshot existed, one of
\* whose uids resolves
C27_Witness ==
  /\ Rendered("tool")
  /\ ~includePages /\ snapshotParams = <<>>
  /\ pages # browserPages
  /\ textSnapshot # <<>>
  /\ \E uid \in DOMAIN textSnapshot[1].idToNode :
       getElementByUid(textSnapshot, attached, uid).err = ""

DialogSuccessLines ==
  {<<"Successfully accepted the dialog">>, <<"Successfully dismissed the dialog">>}

\* C28: with a dialog held, the handle_dialog handler returns without an
\* error, with the dialog cleared and a success line declared, also when
\* accept() or dismiss() threw; the rendered response carries the success
\* line; the session holds a dialog again only once a new one is captured,
\* and no response shows the open-dialog banner while none is held.
C28_BestEffortDialog ==
  /\ [][(lastCall'.op = "handle_dialog" /\ dialog # <<>>) =>
          /\ lastCall'.err = ""
          /\ dialog' = <<>>
          /\ phase' = "declared"
          /\ \E i \in 1..Len(textResponseLines') :
               textResponseLines'[i] \in DialogSuccessLines]_vars
  /\ [][(dialog = <<>> /\ dialog' # <<>>) => lastCall'.op = "dialog"]_vars
  /\ [](Rendered("handle_dialog") => \E line \in DialogSuccessLines : HasLine(line))
  /\ []((lastCall.op = "handle" /\ lastCall.err = "" /\ dialog = <<>>)
          => ~HasLine(<<"# Open dialog">>))

\* handle_dialog has just returned although accept() or dismiss() threw
C28_Witness ==
  /\ lastCall = [op |-> "handle_dialog", arg |-> 1, err |-> ""]
  /\ dialog = <<>>
  /\ textResponseLines = <<<<"Successfully accepted the dialog">>>>

\* C29: no page has a network condition or a CPU rate before one is set
\* (the getters return null and 1); setNetworkConditions and
\* setCpuThrottlingRate give the selected page the value passed and leave
\* every other page's condition and rate, and the selected page's other
\* setting, as they were; selecting a page changes no page's condition or
\* rate, so a page selected again has the values last set for it.
C29_PerPageThrottling ==
  /\ \A p \in PageIds :
       getNetworkConditions(World, p) = <<>> /\ getCpuThrottlingRate(World, p) = 1
  /\ [][/\ (lastCall'.op = "setNetworkConditions" /\ lastCall'.err = "") =>
             /\ getNetworkConditions(World, SelectedPage)' = lastCall'.arg
             /\ \A p \in PageIds \ {SelectedPage} :
                  networkConditionsMap'[p] = networkConditionsMap[p]
             /\ cpuThrottlingRateMap' = cpuThrottlingRateMap
        /\ (lastCall'.op = "setCpuThrottlingRate" /\ lastCall'.err = "") =>
             /\ getCpuThrottlingRate(World, SelectedPage)' = lastCall'.arg
             /\ \A p \in PageIds \ {SelectedPage} :
                  cpuThrottlingRateMap'[p] = cpuThrottlingRateMap[p]
             /\ networkConditionsMap' = networkConditionsMap
        /\ (lastCall'.op = "setSelectedPageIdx" \/ lastCall'.err # "") =>
             /\ networkConditionsMap' = networkConditionsMap
             /\ cpuThrottlingRateMap' = cpuThrottlingRateMap]_vars

\* the first page is selected again after another page was given other
\* settings: it has the condition and the rate set for it, the other page
\* its own condition and no rate
C29_Witness ==
  /\ lastCall = [op |-> "setSelectedPageIdx", arg |-> 0, err |-> ""]
  /\ Len(pages) >= 2
  /\ getNetworkConditions(World, pages[1]) = <<"Fast 4G">>
  /\ getCpuThrottlingRate(World, pages[1]) = 4
  /\ getNetworkConditions(World, pages[2]) = <<"Slow 3G">>
  /\ getCpuThrottlingRate(World, pages[2]) = 1

\* the page list's entry at the selected index is a page that has been closed
SelectedPageClosed ==
  /\ selectedPageIdx >= 0 /\ selectedPageIdx < Len(pages)
  /\ isClosed(World, pages[selectedPageIdx + 1])

\* C30: after a successful closePage(idx) the selected index is 0; and when
\* the selected page has been closed, by closePage or from outside, while the
\* first page of the page list is open, setSelectedPageIdx(0) succeeds and
\* leaves a valid selected page.
C30_FirstPageRecovery ==
  [][/\ (lastCall'.op = "closePage" /\ lastCall'.err = "") => selectedPageIdx' = 0
     /\ (/\ lastCall'.op = "setSelectedPageIdx" /\ lastCall'.arg = 0
         /\ SelectedPageClosed
         /\ ~isClosed(World, pages[1]))
        => (lastCall'.err = "" /\ getSelectedPage(World)'.err = "")]_vars

\* closePage leaves index 0 selected whenever it succeeds
ClosePageSelectsFirst ==
  [][(lastCall'.op = "closePage" /\ lastCall'.err = "") => selectedPageIdx' = 0]_vars

\* the lines of the rendered page list that carry the [selected] mark
SelectedMarks ==
  LET lines == pagesSection(World, TRUE)
  IN {i \in 1..Len(lines) : lines[i][Len(lines[i])] = " [selected]"}

\* C31: the selected index lies within the page list and names a page that
\* is not closed, and the rendered page list marks exactly one page as
\* selected.
C31_SelectedIndexValid ==
  /\ selectedPageIdx >= 0 /\ selectedPageIdx < Len(pages)
  /\ ~isClosed(World, pages[selectedPageIdx + 1])
  /\ Cardinality(SelectedMarks) = 1

\* idx names no page of the page list, or a page that has been closed
NamesNoOpenPage(idx) ==
  idx < 0 \/ idx >= Len(pages) \/ isClosed(World, pages[idx + 1])

\* C32: setSelectedPageIdx called with an index that names no page or a
\* closed page fails and leaves the selected index and the dialog listener
\* registration as they were before the call.
C32_SelectionAtomicOnFailure ==
  [][(lastCall'.op = "setSelectedPageIdx" /\ NamesNoOpenPage(lastCall'.arg)) =>
       /\ lastCall'.err # ""
       /\ selectedPageIdx' = selectedPageIdx
       /\ dialogListeners' = dialogListeners]_vars

\* setSelectedPageIdx called with such an index fails
SelectingNoOpenPageFails ==
  [][(lastCall'.op = "setSelectedPageIdx" /\ NamesNoOpenPage(lastCall'.arg)) =>
       lastCall'.err # ""]_vars

\* C33: when a snapshot was declared and the capture yields no tree, the
\* snapshot-id counter and the current snapshot stay as they were and the
\* rendered response has no 'Page content' section; when it yields a tree,
\* the section shows the snapshot just captured.
C33_PageContentOfThisInvocation ==
  /\ [][(lastCall'.op = "handle" /\ snapshotParams # <<>> /\ lastCall'.arg = 0) =>
          /\ nextSnapshotId' = nextSnapshotId
          /\ textSnapshot' = textSnapshot]_vars
  /\ []((Rendered("tool") /\ snapshotParams # <<>>) =>
          IF lastCall.arg = 0 THEN ~HasLine(<<"## Page content">>)
          ELSE /\ textSnapshot # <<>>
               /\ textSnapshot[1].snapshotId = ToStr(nextSnapshotId - 1)
               /\ SectionAfter(ResponseText, <<"## Page content">>)
                    = formatA11ySnapshot(textSnapshot[1].root, 0))

\* a capture that yields no tree changes neither the counter nor the snapshot
NullCaptureKeepsSnapshot ==
  [][(lastCall'.op = "handle" /\ snapshotParams # <<>> /\ lastCall'.arg = 0) =>
       /\ nextSnapshotId' = nextSnapshotId
       /\ textSnapshot' = textSnapshot]_vars

\* a response that declared a snapshot shows under 'Page content' the
\* session's current snapshot
PageContentIsCurrentSnapshot ==
  (Rendered("tool") /\ snapshotParams # <<>> /\ textSnapshot # <<>>) =>
    SectionAfter(ResponseText, <<"## Page content">>)
      = formatA11ySnapshot(textSnapshot[1].root, 0)

\* the request the network collector observed under the id reqid
ObservedRequest(reqid) ==
  LET i == CHOOSE i \in 1..Len(observed) :
             observed[i].resource.kind = "request" /\ observed[i].id = reqid
  IN observed[i].resource

\* handle() is suspended after its gather pass resolved the attached request
AttachedRequestResolved ==
  /\ phase = "gathering"
  /\ gathered.stage >= 3
  /\ TruthyNumber(attachedNetworkRequestId)

\* C34: once the gather pass has resolved the attached request id on the
\* selected page, the render pass of the same invocation succeeds and
\* renders the detail of the request observed under that id, whatever
\* requests and navigations the collector saw while handle() was suspended.
C34_AttachedRequestConsistent ==
  [][(AttachedRequestResolved /\ lastCall'.op = "handle" /\ lastCall'.arg = 6) =>
       /\ lastCall'.err = ""
       /\ HasLine(<<"## Request ", "url of ">>
                    \o ToStr(ObservedRequest(attachedNetworkRequestId[1]).obj))']_vars

\* the render pass never renders the detail of another request than the one
\* observed under the attached id
RendersNoOtherRequest ==
  (Rendered("get_network_request") /\ HasLineStarting(ResponseText, "## Request ")) =>
    HasLine(<<"## Request ", "url of ">>
              \o ToStr(ObservedRequest(attachedNetworkRequestId[1]).obj))

====
